---- MODULE Spec2Model ----
(***************************************************************************)
(* BlindBid: sponsored-authorization and custodial-settlement engine.      *)
(*                                                                         *)
(* The module holds one state machine per subsystem of the repository:     *)
(*   SpecEscrow   - BlindBidEscrow.sol (custody state machine)             *)
(*   SpecSponsor  - sponsorService.ts + the /api/sponsor routes            *)
(*   SpecPaymaster- issuance (sponsorService / contractService) against    *)
(*                  BlindBidNativePaymaster / BlindBidERC20Paymaster       *)
(*   SpecQuote    - quoteService.ts                                        *)
(*   SpecAudit    - hederaService.ts                                       *)
(* Each specification moves the variables of its subsystem and leaves the  *)
(* others at their initial value.                                          *)
(***************************************************************************)
EXTENDS Integers, Sequences, FiniteSets, TLC

(***************************************************************************)
(* Bounds of the model.                                                    *)
(***************************************************************************)
MaxAmount == 2
MaxBlockTime == 1

(***************************************************************************)
(* ESCROW  (BlindBidEscrow.sol)                                            *)
(***************************************************************************)
VARIABLES escrows, nativeBal, tokenBal, arbitrator, blockTime, lastTx,
          recording
\* the backend's last escrow request, and the last payout during which the
\* recipient called back into the contract
VARIABLES route, reentry

escrowVars ==
  <<escrows, nativeBal, tokenBal, arbitrator, blockTime, lastTx, recording,
    route, reentry>>

ZeroAddress == "0x0"
OwnerAddr == "owner"
EscrowAddr == "escrow"
TokenAddr == "token"
Users == {"u1", "u2"}
Callers == Users \cup {OwnerAddr, "arb"}
Holders == Callers \cup {EscrowAddr}
AuctionKeys == {"k1", "k2"}
EscrowState == {"Empty", "Funded", "Released", "Refunded", "Disputed"}

\* struct Escrow with Solidity's zero defaults
EmptyEscrow ==
  [buyer |-> ZeroAddress, seller |-> ZeroAddress, amount |-> 0,
   token |-> ZeroAddress, state |-> "Empty", fundedAt |-> 0]

\* Ownable(msg.sender): the deployer (the backend bridge) owns the contract
owner == OwnerAddr

NoReceipt ==
  [op |-> "none", sender |-> ZeroAddress, key |-> "k1", err |-> "none"]
NoRoute == [op |-> "none"]
NoReentry == [done |-> FALSE]

\* the contract after construction, holding no record for any of keys;
\* rec says whether the receipt of the last transaction is kept in lastTx
InitEscrowVars(keys, rec) ==
  /\ escrows = [k \in keys |-> EmptyEscrow]
  /\ recording = rec
  /\ nativeBal = [a \in Holders |-> IF a = EscrowAddr THEN 0 ELSE MaxAmount]
  /\ tokenBal = [a \in Holders |-> IF a = EscrowAddr THEN 0 ELSE MaxAmount]
  /\ arbitrator = "arb"
  /\ blockTime = 0
  /\ lastTx = NoReceipt
  /\ route = NoRoute
  /\ reentry = NoReentry

\* the record of the transaction just executed (receipt or revert reason)
Receipt(op, sender, k, err) ==
  IF recording THEN [op |-> op, sender |-> sender, key |-> k, err |-> err]
  ELSE NoReceipt

\* balances after moving amt of asset from one holder to another
Move(bal, from, to, amt) ==
  [a \in Holders |->
     bal[a] - (IF a = from THEN amt ELSE 0) + (IF a = to THEN amt ELSE 0)]

\* depositNative without require(e.state == Empty)
depositNative_overwrite(sender, k, seller, value) ==
  LET err == IF ~(value > 0) THEN "must send value" ELSE "ok"
  IN /\ value <= nativeBal[sender]
     /\ IF err = "ok"
        THEN /\ escrows' = [escrows EXCEPT ![k] =
                  [buyer |-> sender, seller |-> seller, amount |-> value,
                   token |-> ZeroAddress, state |-> "Funded",
                   fundedAt |-> blockTime]]
             /\ nativeBal' = Move(nativeBal, sender, EscrowAddr, value)
        ELSE UNCHANGED <<escrows, nativeBal>>
     /\ lastTx' = Receipt("deposit", sender, k, err)
     /\ UNCHANGED <<tokenBal, arbitrator, blockTime, recording>>

\* depositNative(auctionIdStr, seller) payable, msg.value = value
depositNative(sender, k, seller, value) ==
  LET e == escrows[k]
      err == IF ~(value > 0) THEN "must send value"
             ELSE IF e.state # "Empty" THEN "escrow already exists"
             ELSE "ok"
  IN /\ value <= nativeBal[sender]   \* msg.value is taken from the sender
     /\ IF err = "ok"
        THEN /\ escrows' = [escrows EXCEPT ![k] =
                  [buyer |-> sender, seller |-> seller, amount |-> value,
                   token |-> ZeroAddress, state |-> "Funded",
                   fundedAt |-> blockTime]]
             /\ nativeBal' = Move(nativeBal, sender, EscrowAddr, value)
        ELSE UNCHANGED <<escrows, nativeBal>>
     /\ lastTx' = Receipt("deposit", sender, k, err)
     /\ UNCHANGED <<tokenBal, arbitrator, blockTime, recording>>

\* depositToken recording the deposit without pulling the tokens
depositToken_noPull(sender, k, seller, amount, approved) ==
  LET e == escrows[k]
      err == IF ~(amount > 0) THEN "amount must be > 0"
             ELSE IF e.state # "Empty" THEN "escrow already exists"
             ELSE "ok"
  IN /\ IF err = "ok"
        THEN escrows' = [escrows EXCEPT ![k] =
                  [buyer |-> sender, seller |-> seller, amount |-> amount,
                   token |-> TokenAddr, state |-> "Funded",
                   fundedAt |-> blockTime]]
        ELSE UNCHANGED escrows
     /\ lastTx' = Receipt("deposit", sender, k, err)
     /\ UNCHANGED <<nativeBal, tokenBal, arbitrator, blockTime, recording>>
\* depositToken(auctionIdStr, seller, tokenAddr, amount); approved is whether
\* the sender's ERC-20 allowance to the escrow covers amount
depositToken(sender, k, seller, amount, approved) ==
  LET e == escrows[k]
      err == IF ~(amount > 0) THEN "amount must be > 0"
             ELSE IF e.state # "Empty" THEN "escrow already exists"
             ELSE IF ~approved \/ tokenBal[sender] < amount
                  THEN "token transfer failed"
             ELSE "ok"
  IN /\ IF err = "ok"
        THEN /\ escrows' = [escrows EXCEPT ![k] =
                  [buyer |-> sender, seller |-> seller, amount |-> amount,
                   token |-> TokenAddr, state |-> "Funded",
                   fundedAt |-> blockTime]]
             /\ tokenBal' = Move(tokenBal, sender, EscrowAddr, amount)
        ELSE UNCHANGED <<escrows, tokenBal>>
     /\ lastTx' = Receipt("deposit", sender, k, err)
     /\ UNCHANGED <<nativeBal, arbitrator, blockTime, recording>>

\* Payout without require(ok): the state flips although nothing was moved
Payout_unchecked(op, sender, k, newState, to, accepts) ==
  LET e == escrows[k]
      native == e.token = ZeroAddress
      ok == IF native THEN accepts /\ nativeBal[EscrowAddr] >= e.amount
            ELSE tokenBal[EscrowAddr] >= e.amount
  IN /\ escrows' = [escrows EXCEPT ![k].state = newState]
     /\ IF ok /\ native
        THEN /\ nativeBal' = Move(nativeBal, EscrowAddr, to, e.amount)
             /\ UNCHANGED tokenBal
        ELSE IF ok
        THEN /\ tokenBal' = Move(tokenBal, EscrowAddr, to, e.amount)
             /\ UNCHANGED nativeBal
        ELSE UNCHANGED <<nativeBal, tokenBal>>
     /\ lastTx' = Receipt(op, sender, k, "ok")

\* the value transfer of release / refund / resolveDispute: a native call to
\* the recipient (who may reject it: accepts) or a safeTransfer of the token
Payout(op, sender, k, newState, to, accepts) ==
  LET e == escrows[k]
      native == e.token = ZeroAddress
      ok == IF native THEN accepts /\ nativeBal[EscrowAddr] >= e.amount
            ELSE tokenBal[EscrowAddr] >= e.amount
      err == IF ok THEN "ok"
             ELSE IF native THEN "native transfer failed"
             ELSE "token transfer failed"
  IN /\ IF ok
        THEN /\ escrows' = [escrows EXCEPT ![k].state = newState]
             /\ IF native
                THEN /\ nativeBal' = Move(nativeBal, EscrowAddr, to, e.amount)
                     /\ UNCHANGED tokenBal
                ELSE /\ tokenBal' = Move(tokenBal, EscrowAddr, to, e.amount)
                     /\ UNCHANGED nativeBal
        ELSE UNCHANGED <<escrows, nativeBal, tokenBal>>
     /\ lastTx' = Receipt(op, sender, k, err)

Revert(op, sender, k, err) ==
  /\ lastTx' = Receipt(op, sender, k, err)
  /\ UNCHANGED <<escrows, nativeBal, tokenBal>>

\* release without the onlyOwner modifier
release_anyone(sender, k, accepts) ==
  /\ IF escrows[k].state # "Funded"
     THEN Revert("release", sender, k, "not funded")
     ELSE Payout("release", sender, k, "Released", escrows[k].seller, accepts)
  /\ UNCHANGED <<arbitrator, blockTime, recording>>

\* release(auctionIdStr) onlyOwner
release(sender, k, accepts) ==
  /\ IF sender # owner THEN Revert("release", sender, k, "not owner")
     ELSE IF escrows[k].state # "Funded"
          THEN Revert("release", sender, k, "not funded")
     ELSE Payout("release", sender, k, "Released", escrows[k].seller, accepts)
  /\ UNCHANGED <<arbitrator, blockTime, recording>>

\* refund without require(e.state == Funded)
refund_anyState(sender, k, accepts) ==
  /\ IF sender # owner THEN Revert("refund", sender, k, "not owner")
     ELSE Payout("refund", sender, k, "Refunded", escrows[k].buyer, accepts)
  /\ UNCHANGED <<arbitrator, blockTime, recording>>

\* refund(auctionIdStr) onlyOwner
refund(sender, k, accepts) ==
  /\ IF sender # owner THEN Revert("refund", sender, k, "not owner")
     ELSE IF escrows[k].state # "Funded"
          THEN Revert("refund", sender, k, "not funded")
     ELSE Payout("refund", sender, k, "Refunded", escrows[k].buyer, accepts)
  /\ UNCHANGED <<arbitrator, blockTime, recording>>

\* dispute without require(e.state == Funded)
dispute_anyState(sender, k) ==
  LET e == escrows[k]
      err == IF ~(sender = e.buyer \/ sender = e.seller) THEN "not a party"
             ELSE "ok"
  IN /\ IF err = "ok"
        THEN escrows' = [escrows EXCEPT ![k].state = "Disputed"]
        ELSE UNCHANGED escrows
     /\ lastTx' = Receipt("dispute", sender, k, err)
     /\ UNCHANGED <<nativeBal, tokenBal, arbitrator, blockTime, recording>>

\* dispute(auctionIdStr)
dispute(sender, k) ==
  LET e == escrows[k]
      err == IF e.state # "Funded" THEN "not funded"
             ELSE IF ~(sender = e.buyer \/ sender = e.seller) THEN "not a party"
             ELSE "ok"
  IN /\ IF err = "ok"
        THEN escrows' = [escrows EXCEPT ![k].state = "Disputed"]
        ELSE UNCHANGED escrows
     /\ lastTx' = Receipt("dispute", sender, k, err)
     /\ UNCHANGED <<nativeBal, tokenBal, arbitrator, blockTime, recording>>

\* resolveDispute with the two branches exchanged
resolveDispute_swapped(sender, k, releaseToSeller, accepts) ==
  /\ IF ~(sender = arbitrator \/ sender = owner)
     THEN Revert("resolve", sender, k, "not authorized")
     ELSE IF escrows[k].state # "Disputed"
          THEN Revert("resolve", sender, k, "not disputed")
     ELSE IF releaseToSeller
          THEN Payout("resolve", sender, k, "Refunded", escrows[k].buyer, accepts)
     ELSE Payout("resolve", sender, k, "Released", escrows[k].seller, accepts)
  /\ UNCHANGED <<arbitrator, blockTime, recording>>

\* resolveDispute(auctionIdStr, releaseToSeller)
resolveDispute(sender, k, releaseToSeller, accepts) ==
  /\ IF ~(sender = arbitrator \/ sender = owner)
     THEN Revert("resolve", sender, k, "not authorized")
     ELSE IF escrows[k].state # "Disputed"
          THEN Revert("resolve", sender, k, "not disputed")
     ELSE IF releaseToSeller
          THEN Payout("resolve", sender, k, "Released", escrows[k].seller, accepts)
     ELSE Payout("resolve", sender, k, "Refunded", escrows[k].buyer, accepts)
  /\ UNCHANGED <<arbitrator, blockTime, recording>>

\* setArbitrator(_arbitrator) onlyOwner
setArbitrator(sender, a) ==
  /\ IF sender = owner
     THEN /\ arbitrator' = a
          /\ lastTx' = Receipt("setArbitrator", sender, "k1", "ok")
     ELSE /\ UNCHANGED arbitrator
          /\ lastTx' = Receipt("setArbitrator", sender, "k1", "not owner")
  /\ UNCHANGED <<escrows, nativeBal, tokenBal, blockTime, recording>>

\* a new block: block.timestamp advances
MineBlock ==
  /\ blockTime < MaxBlockTime
  /\ blockTime' = blockTime + 1
  /\ UNCHANGED <<escrows, nativeBal, tokenBal, arbitrator, lastTx, recording>>

EscrowNext ==
  \/ \E s \in Users, k \in DOMAIN escrows, to \in Users, v \in 0..MaxAmount :
        depositNative(s, k, to, v)
  \/ \E s \in Users, k \in DOMAIN escrows, to \in Users, v \in 0..MaxAmount,
        ap \in BOOLEAN : depositToken(s, k, to, v, ap)
  \/ \E s \in Callers, k \in DOMAIN escrows, acc \in BOOLEAN : release(s, k, acc)
  \/ \E s \in Callers, k \in DOMAIN escrows, acc \in BOOLEAN : refund(s, k, acc)
  \/ \E s \in Callers, k \in DOMAIN escrows : dispute(s, k)
  \/ \E s \in Callers, k \in DOMAIN escrows, ts \in BOOLEAN, acc \in BOOLEAN :
        resolveDispute(s, k, ts, acc)
  \/ \E s \in Callers, a \in {"arb", "u1"} : setArbitrator(s, a)
  \/ MineBlock

\* the revert reason of the transition op called by caller on a key whose
\* record reads rec ("ok": every require passes)
CallError(op, caller, rec) ==
  CASE op \in {"release", "refund"} ->
         IF caller # owner THEN "not owner"
         ELSE IF rec.state # "Funded" THEN "not funded"
         ELSE "ok"
    [] op = "dispute" ->
         IF rec.state # "Funded" THEN "not funded"
         ELSE IF ~(caller = rec.buyer \/ caller = rec.seller) THEN "not a party"
         ELSE "ok"
    [] op = "resolve" ->
         IF ~(caller = arbitrator \/ caller = owner) THEN "not authorized"
         ELSE IF rec.state # "Disputed" THEN "not disputed"
         ELSE "ok"

\* the record as a callback finds it when the state is written after the
\* transfer
StateAtCallback_flipAfter(e, newState) == e

\* the record as the recipient's callback finds it during the transfer:
\* e.state = newState is written before the external call
StateAtCallback(e, newState) == [e EXCEPT !.state = newState]

\* release / refund / resolveDispute (op, with releaseToSeller for resolve)
\* by sender on a native record whose requires pass, the recipient calling
\* the transition inner (innerToSeller for resolve) on the same key from its
\* receive hook; a failed callback either reverts the hook (propagates), so
\* that the transfer's ok is false and the transaction reverts with "native
\* transfer failed", or is swallowed by the recipient
ReentrantPayout(op, sender, k, releaseToSeller, inner, innerToSeller, propagates) ==
  LET e == escrows[k]
      toSeller == op = "release" \/ (op = "resolve" /\ releaseToSeller)
      newState == IF toSeller THEN "Released" ELSE "Refunded"
      to == IF toSeller THEN e.seller ELSE e.buyer
      at == StateAtCallback(e, newState)
      innerTo == IF inner = "release" \/ (inner = "resolve" /\ innerToSeller)
                 THEN e.seller ELSE e.buyer
      innerErr == LET err == CallError(inner, to, at)
                  IN IF err # "ok" \/ inner = "dispute" THEN err
                     ELSE IF nativeBal[EscrowAddr] - e.amount >= e.amount
                          THEN "ok" ELSE "native transfer failed"
      innerPaid == innerErr = "ok" /\ inner # "dispute"
      reverted == innerErr # "ok" /\ propagates
      afterOuter == Move(nativeBal, EscrowAddr, to, e.amount)
  IN /\ CallError(op, sender, e) = "ok"
     /\ e.token = ZeroAddress
     /\ nativeBal[EscrowAddr] >= e.amount
     /\ IF reverted
        THEN UNCHANGED <<escrows, nativeBal>>
        ELSE /\ escrows' = [escrows EXCEPT ![k].state = newState]
             /\ nativeBal' = IF innerPaid
                               THEN Move(afterOuter, EscrowAddr, innerTo, e.amount)
                               ELSE afterOuter
     /\ lastTx' = Receipt(op, sender, k,
                          IF reverted THEN "native transfer failed" ELSE "ok")
     /\ reentry' = [done |-> TRUE, op |-> op, key |-> k, inner |-> inner,
                    caller |-> to, innerErr |-> innerErr,
                    reverted |-> reverted, amount |-> e.amount,
                    paidOut |-> nativeBal[EscrowAddr] - nativeBal'[EscrowAddr]]
     /\ UNCHANGED <<tokenBal, arbitrator, blockTime, recording, route>>

\* native deposits, disputes and payouts whose recipient calls back into the
\* contract
EscrowReentryNext ==
  \/ \E k \in DOMAIN escrows, to \in {"u2", OwnerAddr}, v \in 1..MaxAmount :
        depositNative("u1", k, to, v) /\ UNCHANGED <<route, reentry>>
  \/ \E k \in DOMAIN escrows :
        dispute("u1", k) /\ UNCHANGED <<route, reentry>>
  \/ \E op \in {"release", "refund", "resolve"}, s \in {OwnerAddr, "arb"},
        k \in DOMAIN escrows, ts \in BOOLEAN,
        inner \in {"release", "refund", "dispute", "resolve"},
        its \in BOOLEAN, pr \in BOOLEAN :
        ReentrantPayout(op, s, k, ts, inner, its, pr)
\* the calls that move or commit funds
EscrowFundsNext ==
  \/ \E s \in Users, k \in DOMAIN escrows, to \in Users, v \in 0..MaxAmount :
        depositNative(s, k, to, v)
  \/ \E s \in Users, k \in DOMAIN escrows, to \in Users, v \in 0..MaxAmount,
        ap \in BOOLEAN : depositToken(s, k, to, v, ap)
  \/ \E s \in Callers, k \in DOMAIN escrows, acc \in BOOLEAN : release(s, k, acc)
  \/ \E s \in Callers, k \in DOMAIN escrows, acc \in BOOLEAN : refund(s, k, acc)
  \/ \E s \in Callers, k \in DOMAIN escrows : dispute(s, k)
  \/ \E s \in Callers, k \in DOMAIN escrows, ts \in BOOLEAN, acc \in BOOLEAN :
        resolveDispute(s, k, ts, acc)
\* whether a record in state st admits the transition op
Permits(st, op) ==
  CASE op = "deposit" -> st = "Empty"
    [] op \in {"release", "refund", "dispute"} -> st = "Funded"
    [] op = "resolve" -> st = "Disputed"

\* what an escrow route of the backend did with its request: whether it
\* read the record before the transition call, whether it sent the call
\* through the deployer wallet, and the record's state when it arrived
Submitted(op, k) ==
  [op |-> op, key |-> k, readState |-> FALSE, submitted |-> TRUE,
   permitted |-> Permits(escrows[k].state, op)]

\* GET /api/escrow/:auctionId (getEscrowInfo)
GetEscrowRoute(k) ==
  /\ route' = [op |-> "get", key |-> k, readState |-> TRUE,
               submitted |-> FALSE, permitted |-> TRUE]
  /\ UNCHANGED <<escrows, nativeBal, tokenBal, arbitrator, blockTime, lastTx,
                 recording, reentry>>

\* POST /api/escrow/deposit-native
PostDepositNative(k, sellerAddress, amount) ==
  /\ depositNative(OwnerAddr, k, sellerAddress, amount)
  /\ route' = Submitted("deposit", k)
  /\ UNCHANGED reentry

\* POST /api/escrow/release
PostRelease(k, accepts) ==
  /\ release(OwnerAddr, k, accepts)
  /\ route' = Submitted("release", k)
  /\ UNCHANGED reentry

\* POST /api/escrow/refund
PostRefund(k, accepts) ==
  /\ refund(OwnerAddr, k, accepts)
  /\ route' = Submitted("refund", k)
  /\ UNCHANGED reentry

\* POST /api/escrow/dispute
PostDispute(k) ==
  /\ dispute(OwnerAddr, k)
  /\ route' = Submitted("dispute", k)
  /\ UNCHANGED reentry

\* POST /api/escrow/resolve-dispute
PostResolveDispute(k, releaseToSeller, accepts) ==
  /\ resolveDispute(OwnerAddr, k, releaseToSeller, accepts)
  /\ route' = Submitted("resolve", k)
  /\ UNCHANGED reentry

EscrowRouteNext ==
  \/ \E k \in DOMAIN escrows : GetEscrowRoute(k)
  \/ \E k \in DOMAIN escrows, to \in Users \cup {OwnerAddr}, v \in 0..MaxAmount :
        PostDepositNative(k, to, v)
  \/ \E k \in DOMAIN escrows, acc \in BOOLEAN : PostRelease(k, acc)
  \/ \E k \in DOMAIN escrows, acc \in BOOLEAN : PostRefund(k, acc)
  \/ \E k \in DOMAIN escrows : PostDispute(k)
  \/ \E k \in DOMAIN escrows, ts \in BOOLEAN, acc \in BOOLEAN :
        PostResolveDispute(k, ts, acc)

(***************************************************************************)
(* SIGNATURES  (ethers keccak256 / AbiCoder / signMessage, OZ ECDSA)       *)
(* keccak256 and abi.encode are injective on the typed field list, so a    *)
(* hash is the tagged tuple of the encoded fields; a signature records its *)
(* signer and the signed digest, and recovery against another digest       *)
(* yields an address nobody registered.                                    *)
(***************************************************************************)
SponsorSignerAddr == "sponsorSigner"
UnknownSigner == "unrelated"

\* String.prototype.toLowerCase on the address spellings of the model; an
\* ABI-encoded address is the same 20 bytes whatever the spelling
ToLower(a) == IF a = "0xAB" THEN "0xab" ELSE a

\* keccak256(abi.encode(["address","uint48","uint48","address","uint256",
\* "address"], [sender, validUntil, validAfter, paymaster, chainId, entryPoint]))
AuthHash(sender, validUntil, validAfter, paymaster, chainId, entryPoint) ==
  <<"keccak", ToLower(sender), validUntil, validAfter, ToLower(paymaster),
    chainId, ToLower(entryPoint)>>

\* MessageHashUtils.toEthSignedMessageHash / the prefix signMessage applies
toEthSignedMessageHash(hash) == <<"eip191", hash>>

\* Wallet.signMessage(getBytes(hash)) by the holder of signerAddr's key
signMessage(signerAddr, hash) ==
  [signer |-> signerAddr, digest |-> toEthSignedMessageHash(hash)]

\* ECDSA.recover(digest, signature)
recover(digest, signature) ==
  IF signature.digest = digest THEN signature.signer ELSE UnknownSigner

(***************************************************************************)
(* SPONSOR SERVICE  (sponsorService.ts, contractService.ts, routes)        *)
(***************************************************************************)
VARIABLES policyStore, opsCounter, rateLimitTimestamps, clock, req,
          buildResult, issued, quota, started

sponsorVars ==
  <<policyStore, opsCounter, rateLimitTimestamps, clock, req, buildResult,
    issued, quota, started>>

MaxRequests == 2
MaxSignRequests == 2
MaxOps == 2
MaxTicks == 1

RATE_LIMIT_WINDOW_MS == 60 * 60 * 1000
HourlyCap == 20
ClockSkewSeconds == 30
DefaultValiditySeconds == 300
\* the clock advances in steps of half a window, from one window after 0
TickMs == RATE_LIMIT_WINDOW_MS \div 2
StartMs == RATE_LIMIT_WINDOW_MS

Addresses == {"0xAB", "0xab", "0xcd"}
Scopes == {"A1", "A2"}
Selectors == {"0xaaaaaaaa", "0xbbbbbbbb"}
NativePaymaster == "0xnative"
ERC20Paymaster == "0xerc20"
EntryPointV07 == "0xentrypoint"
ChainId == 99999

\* Map.get(k) ?? d
GetOr(m, k, d) == IF k \in DOMAIN m THEN m[k] ELSE d
\* Map.set(k, v)
MapSet(m, k, v) == [x \in DOMAIN m \cup {k} |-> IF x = k THEN v ELSE m[x]]

\* opsKey(auctionId, beneficiary)
opsKey(auctionId, beneficiary) == <<auctionId, ToLower(beneficiary)>>

\* Math.floor(Date.now() / 1000)
NowSeconds == clock \div 1000

IdleReq == [pc |-> "idle"]

InitSponsorVars(ids) ==
  /\ policyStore = <<>>
  /\ opsCounter = <<>>
  /\ rateLimitTimestamps = <<>>
  /\ clock = StartMs
  /\ req = [i \in ids |-> IdleReq]
  /\ buildResult = [err |-> "none"]
  /\ issued = <<>>
  /\ quota = <<>>
  /\ started = 0

\* SelectSeq(stamps, t => nowMs - t < RATE_LIMIT_WINDOW_MS)
RECURSIVE FilterWindow(_, _)
FilterWindow(stamps, nowMs) ==
  IF stamps = <<>> THEN <<>>
  ELSE LET rest == FilterWindow(Tail(stamps), nowMs)
       IN IF nowMs - Head(stamps) < RATE_LIMIT_WINDOW_MS
          THEN <<Head(stamps)>> \o rest ELSE rest

\* bookkeeping of the requests decided since a beneficiary's registration:
\* n counts the requests that met a registered, unexpired policy of their
\* scope with a permitted selector, last is the outcome of the latest of
\* them and clean says that none of them met a full hourly window
FreshQuota == [n |-> 0, last |-> "none", clean |-> TRUE]

\* registerPolicy keeping the usage counter it finds
registerPolicy_keepCounter(policy) ==
  LET key == ToLower(policy.beneficiary)
  IN /\ policyStore' = MapSet(policyStore, key, policy)
     /\ opsCounter' = MapSet(opsCounter, opsKey(policy.auctionId, key),
                             GetOr(opsCounter, opsKey(policy.auctionId, key), 0))
\* registerPolicy(policy)
registerPolicy(policy) ==
  LET key == ToLower(policy.beneficiary)
  IN /\ policyStore' = MapSet(policyStore, key, policy)
     /\ opsCounter' = MapSet(opsCounter, opsKey(policy.auctionId, key), 0)

\* POST /api/sponsor/policy
PostPolicy(auctionId, beneficiary, allowedSelectors, maxOpsPerAuction, expirySeconds) ==
  /\ registerPolicy([auctionId |-> auctionId, beneficiary |-> beneficiary,
                     allowedSelectors |-> allowedSelectors,
                     maxOpsPerAuction |-> maxOpsPerAuction,
                     expiresAt |-> NowSeconds + expirySeconds])
     \* issuances are counted from the latest registration; a request that
     \* was already in buildSponsorshipData is not counted against it
  /\ issued' = MapSet(issued, ToLower(beneficiary), 0)
  /\ quota' = MapSet(quota, ToLower(beneficiary), FreshQuota)
  /\ req' = [i \in DOMAIN req |->
               IF /\ req[i].pc \in {"b_chain", "b_sign"}
                  /\ ToLower(req[i].sender) = ToLower(beneficiary)
               THEN [req[i] EXCEPT !.counted = FALSE] ELSE req[i]]
  /\ UNCHANGED <<rateLimitTimestamps, clock, buildResult, started>>

\* the abuse controls with the quota test written currentOps > maxOps
AbuseControls_offByOne(sender, auctionId, selector) ==
  LET beneficiaryKey == ToLower(sender)
      now == NowSeconds
      policy == policyStore[beneficiaryKey]
      key == opsKey(policy.auctionId, beneficiaryKey)
      currentOps == GetOr(opsCounter, key, 0)
      stamps == FilterWindow(GetOr(rateLimitTimestamps, beneficiaryKey, <<>>),
                             clock)
      Fail(e) == [err |-> e]
  IN IF beneficiaryKey \notin DOMAIN policyStore
       THEN Fail("SPONSOR_POLICY_NOT_FOUND")
     ELSE IF policy.expiresAt < now THEN Fail("SPONSOR_POLICY_EXPIRED")
     ELSE IF policy.auctionId # auctionId THEN Fail("SPONSOR_AUCTION_MISMATCH")
     ELSE IF policy.allowedSelectors # {}
             /\ selector \notin policy.allowedSelectors
       THEN Fail("SPONSOR_SELECTOR_DISALLOWED")
     ELSE IF currentOps > policy.maxOpsPerAuction
       THEN Fail("SPONSOR_RATE_LIMIT")
     ELSE IF Len(stamps) >= HourlyCap THEN Fail("SPONSOR_HOURLY_LIMIT")
     ELSE [err |-> "ok", hourKey |-> beneficiaryKey, key |-> key,
           currentOps |-> currentOps, stamps |-> stamps,
           validAfter |-> now - ClockSkewSeconds,
           validUntil |-> now + DefaultValiditySeconds]

\* the abuse controls testing the scope before the expiry
AbuseControls_mismatchFirst(sender, auctionId, selector) ==
  LET beneficiaryKey == ToLower(sender)
      now == NowSeconds
      policy == policyStore[beneficiaryKey]
      key == opsKey(policy.auctionId, beneficiaryKey)
      currentOps == GetOr(opsCounter, key, 0)
      stamps == FilterWindow(GetOr(rateLimitTimestamps, beneficiaryKey, <<>>),
                             clock)
      Fail(e) == [err |-> e]
  IN IF beneficiaryKey \notin DOMAIN policyStore
       THEN Fail("SPONSOR_POLICY_NOT_FOUND")
     ELSE IF policy.auctionId # auctionId THEN Fail("SPONSOR_AUCTION_MISMATCH")
     ELSE IF policy.expiresAt < now THEN Fail("SPONSOR_POLICY_EXPIRED")
     ELSE IF policy.allowedSelectors # {}
             /\ selector \notin policy.allowedSelectors
       THEN Fail("SPONSOR_SELECTOR_DISALLOWED")
     ELSE IF currentOps >= policy.maxOpsPerAuction
       THEN Fail("SPONSOR_RATE_LIMIT")
     ELSE IF Len(stamps) >= HourlyCap THEN Fail("SPONSOR_HOURLY_LIMIT")
     ELSE [err |-> "ok", hourKey |-> beneficiaryKey, key |-> key,
           currentOps |-> currentOps, stamps |-> stamps,
           validAfter |-> now - ClockSkewSeconds,
           validUntil |-> now + DefaultValiditySeconds]

\* the abuse controls of buildSponsorshipData (lines 52-94), evaluated
\* without suspension: the error thrown, or "ok" with the values the
\* function holds in its locals across the awaits that follow
AbuseControls(sender, auctionId, selector) ==
  LET beneficiaryKey == ToLower(sender)
      now == NowSeconds
      policy == policyStore[beneficiaryKey]
      key == opsKey(policy.auctionId, beneficiaryKey)
      currentOps == GetOr(opsCounter, key, 0)
      stamps == FilterWindow(GetOr(rateLimitTimestamps, beneficiaryKey, <<>>),
                             clock)
      Fail(e) == [err |-> e]
  IN IF beneficiaryKey \notin DOMAIN policyStore
       THEN Fail("SPONSOR_POLICY_NOT_FOUND")
     ELSE IF policy.expiresAt < now THEN Fail("SPONSOR_POLICY_EXPIRED")
     ELSE IF policy.auctionId # auctionId THEN Fail("SPONSOR_AUCTION_MISMATCH")
     ELSE IF policy.allowedSelectors # {}
             /\ selector \notin policy.allowedSelectors
       THEN Fail("SPONSOR_SELECTOR_DISALLOWED")
     ELSE IF currentOps >= policy.maxOpsPerAuction
       THEN Fail("SPONSOR_RATE_LIMIT")
     ELSE IF Len(stamps) >= HourlyCap THEN Fail("SPONSOR_HOURLY_LIMIT")
     ELSE [err |-> "ok", hourKey |-> beneficiaryKey, key |-> key,
           currentOps |-> currentOps, stamps |-> stamps,
           validAfter |-> now - ClockSkewSeconds,
           validUntil |-> now + DefaultValiditySeconds]

\* lines 126-129: the counter updates of a request whose locals are c
UpdateCounters(c) ==
  /\ opsCounter' = MapSet(opsCounter, c.key, c.currentOps + 1)
  /\ rateLimitTimestamps' =
       MapSet(rateLimitTimestamps, c.hourKey, Append(c.stamps, clock))

\* the SponsorshipData returned by buildSponsorshipData
SponsorshipData(paymasterAddress, sender, c) ==
  [paymasterAddress |-> paymasterAddress,
   validUntil |-> c.validUntil, validAfter |-> c.validAfter,
   sponsorSignature |->
     signMessage(SponsorSignerAddr,
                 AuthHash(sender, c.validUntil, c.validAfter,
                          paymasterAddress, ChainId, EntryPointV07))]

\* signSponsorAuthorization + buildPaymasterAndData of the route
RouteAuthorization(paymasterAddress, sender, nowSec) ==
  [paymasterAddress |-> paymasterAddress,
   validUntil |-> nowSec + DefaultValiditySeconds,
   validAfter |-> nowSec - ClockSkewSeconds,
   sponsorSignature |->
     signMessage(SponsorSignerAddr,
                 AuthHash(sender, nowSec + DefaultValiditySeconds,
                          nowSec - ClockSkewSeconds,
                          paymasterAddress, ChainId, EntryPointV07))]

NoAuthorization == [paymasterAddress |-> "none"]

\* the response of POST /api/sponsor/sign
Respond(r, status, auth, policyCheck, err) ==
  [pc |-> "done", sender |-> r.sender, auctionId |-> r.auctionId,
   selector |-> r.selector, status |-> status, auth |-> auth,
   policyCheck |-> policyCheck, error |-> err]

\* POST /api/sponsor/sign, up to the first await (getNetwork in
\* signSponsorAuthorization)
SignStart(i, sender, auctionId, selector, paymasterAddress) ==
  /\ req[i].pc \in {"idle", "done"}
  /\ started < MaxSignRequests
  /\ started' = started + 1
  /\ req' = [req EXCEPT ![i] =
       [pc |-> "r_chain", sender |-> sender, auctionId |-> auctionId,
        selector |-> selector, paymasterAddress |-> paymasterAddress,
        now |-> NowSeconds]]
  /\ UNCHANGED <<policyStore, opsCounter, rateLimitTimestamps, clock,
                 buildResult, issued, quota>>

\* getNetwork of signSponsorAuthorization returns (netOk) or fails
SignChainId(i, netOk) ==
  /\ req[i].pc = "r_chain"
  /\ req' = [req EXCEPT ![i] =
       IF netOk THEN [req[i] EXCEPT !.pc = "r_sign"]
       ELSE Respond(req[i], 403, NoAuthorization, "none", "SPONSOR_ERROR")]
  /\ UNCHANGED <<policyStore, opsCounter, rateLimitTimestamps, clock,
                 buildResult, issued, quota, started>>

\* the policy check writing the counters as soon as the rules have passed,
\* before the awaits of buildSponsorshipData
SignPolicyCheck_reserveFirst(i) ==
  /\ req[i].pc = "r_sign"
  /\ LET r == req[i]
         auth == RouteAuthorization(r.paymasterAddress, r.sender, r.now)
         c == AbuseControls(r.sender, r.auctionId, r.selector)
     IN IF c.err = "ok"
        THEN /\ req' = [req EXCEPT ![i] =
                  [pc |-> "b_chain", sender |-> r.sender,
                   auctionId |-> r.auctionId, selector |-> r.selector,
                   paymasterAddress |-> r.paymasterAddress,
                   auth |-> auth, locals |-> c, counted |-> TRUE]]
             /\ UpdateCounters(c)
             /\ UNCHANGED buildResult
        ELSE /\ req' = [req EXCEPT ![i] =
                  [pc |-> "r_respond", sender |-> r.sender,
                   auctionId |-> r.auctionId, selector |-> r.selector,
                   auth |-> auth, policyCheck |-> "no_policy"]]
             /\ buildResult' = [err |-> c.err, sender |-> r.sender,
                                auctionId |-> r.auctionId]
             /\ UNCHANGED <<opsCounter, rateLimitTimestamps>>
  /\ UNCHANGED <<policyStore, clock, issued, quota, started>>

\* signMessage of signSponsorAuthorization returns; buildPaymasterAndData;
\* buildSponsorshipData runs its abuse controls up to its getNetwork await
SignPolicyCheck(i) ==
  /\ req[i].pc = "r_sign"
  /\ LET r == req[i]
         auth == RouteAuthorization(r.paymasterAddress, r.sender, r.now)
         c == AbuseControls(r.sender, r.auctionId, r.selector)
     IN IF c.err = "ok"
        THEN /\ req' = [req EXCEPT ![i] =
                  [pc |-> "b_chain", sender |-> r.sender,
                   auctionId |-> r.auctionId, selector |-> r.selector,
                   paymasterAddress |-> r.paymasterAddress,
                   auth |-> auth, locals |-> c, counted |-> TRUE]]
             /\ UNCHANGED buildResult
        ELSE /\ req' = [req EXCEPT ![i] =
                  [pc |-> "r_respond", sender |-> r.sender,
                   auctionId |-> r.auctionId, selector |-> r.selector,
                   auth |-> auth, policyCheck |-> "no_policy"]]
             /\ buildResult' = [err |-> c.err, sender |-> r.sender,
                                auctionId |-> r.auctionId]
  /\ UNCHANGED <<policyStore, opsCounter, rateLimitTimestamps, clock, issued, quota, started>>

\* getNetwork of buildSponsorshipData (line 100) returns or fails; a failure
\* is swallowed by the route's inner catch
BuildChainId(i, netOk) ==
  /\ req[i].pc = "b_chain"
  /\ LET r == req[i]
     IN IF netOk
        THEN /\ req' = [req EXCEPT ![i].pc = "b_sign"]
             /\ UNCHANGED buildResult
        ELSE /\ req' = [req EXCEPT ![i] =
                  [pc |-> "r_respond", sender |-> r.sender,
                   auctionId |-> r.auctionId, selector |-> r.selector,
                   auth |-> r.auth, policyCheck |-> "no_policy"]]
             /\ buildResult' = [err |-> "NETWORK_ERROR", sender |-> r.sender,
                                auctionId |-> r.auctionId]
  /\ UNCHANGED <<policyStore, opsCounter, rateLimitTimestamps, clock, issued, quota, started>>

\* signMessage of buildSponsorshipData (line 117) returns; the counters are
\* updated from the locals and the SponsorshipData is returned
BuildSigned(i) ==
  /\ req[i].pc = "b_sign"
  /\ LET r == req[i]
     IN /\ UpdateCounters(r.locals)
        /\ req' = [req EXCEPT ![i] =
             [pc |-> "r_respond", sender |-> r.sender,
              auctionId |-> r.auctionId, selector |-> r.selector,
              auth |-> r.auth, policyCheck |-> "passed"]]
        /\ buildResult' =
             [err |-> "ok", sender |-> r.sender, auctionId |-> r.auctionId,
              data |-> SponsorshipData(r.paymasterAddress, r.sender, r.locals)]
        /\ issued' = IF r.counted
                     THEN MapSet(issued, ToLower(r.sender),
                                 GetOr(issued, ToLower(r.sender), 0) + 1)
                     ELSE issued
  /\ UNCHANGED <<policyStore, clock, quota, started>>

\* signMessage of buildSponsorshipData (line 117) rejects: nothing is
\* written and the route's inner catch swallows the error
BuildSignFailed(i) ==
  /\ req[i].pc = "b_sign"
  /\ LET r == req[i]
     IN /\ req' = [req EXCEPT ![i] =
             [pc |-> "r_respond", sender |-> r.sender,
              auctionId |-> r.auctionId, selector |-> r.selector,
              auth |-> r.auth, policyCheck |-> "no_policy"]]
        /\ buildResult' = [err |-> "SIGN_ERROR", sender |-> r.sender,
                           auctionId |-> r.auctionId]
  /\ UNCHANGED <<policyStore, opsCounter, rateLimitTimestamps, clock, issued,
                 quota, started>>

\* getNetwork inside res.json (line 1316) returns or fails
SignRespond(i, netOk) ==
  /\ req[i].pc = "r_respond"
  /\ LET r == req[i]
     IN req' = [req EXCEPT ![i] =
          IF netOk THEN Respond(r, 200, r.auth, r.policyCheck, "none")
          ELSE Respond(r, 403, NoAuthorization, "none", "SPONSOR_ERROR")]
  /\ UNCHANGED <<policyStore, opsCounter, rateLimitTimestamps, clock,
                 buildResult, issued, quota, started>>

\* time passes
Tick ==
  /\ clock < StartMs + MaxTicks * TickMs
  /\ clock' = clock + TickMs
  /\ UNCHANGED <<policyStore, opsCounter, rateLimitTimestamps, req,
                 buildResult, issued, quota, started>>

(***************************************************************************)
(* PAYMASTERS  (BlindBidNativePaymaster.sol, BlindBidERC20Paymaster.sol)   *)
(* against the blobs issued by sponsorService.ts / contractService.ts      *)
(***************************************************************************)
VARIABLES sponsorSigner, tokenPricePerGas, allowance, inFlight, val
\* the native paymaster's accounting, and the post-execution calls made so
\* far (sender and actual fee cost of each)
VARIABLES sponsoredGas, sponsoredOpsCount, postOps
\* the token paymaster's operation in progress (the context its validation
\* returned), its accounting, the senders' token balances and the last
\* post-execution charge
VARIABLES context, tokensPaid, balanceOf, charged

tokenOpVars == <<context, tokensPaid, balanceOf, charged>>

accountingVars == <<sponsoredGas, sponsoredOpsCount, postOps, tokenOpVars>>

paymasterVars ==
  <<sponsorSigner, tokenPricePerGas, allowance, inFlight, val, accountingVars>>

Paymasters == {NativePaymaster, ERC20Paymaster}
OtherChainId == 31337
AttackerAddr == "attacker"
\* maxCost is counted in units of 1e15 wei, so that dividing by 1e18 is
\* dividing by 1000
E18 == 1000
MaxPrice == 2
MaxPostOps == 3
MaxGasCost == 2
MaxTokens == 3

NoContext == [active |-> FALSE]
NotCharged == [done |-> FALSE]
NoAuth == [issued |-> FALSE]
NoValidation == [done |-> FALSE]

InitPaymasterVars ==
  /\ sponsorSigner = [p \in Paymasters |-> SponsorSignerAddr]
  /\ tokenPricePerGas = 1
  /\ allowance = [a \in {"0xab", "0xcd"} |-> 0]
  /\ inFlight = NoAuth
  /\ val = NoValidation
  /\ sponsoredGas = [a \in {"0xab", "0xcd"} |-> 0]
  /\ sponsoredOpsCount = [a \in {"0xab", "0xcd"} |-> 0]
  /\ postOps = <<>>
  /\ context = NoContext
  /\ tokensPaid = [a \in {"0xab", "0xcd"} |-> 0]
  /\ balanceOf = [a \in {"0xab", "0xcd"} |-> MaxTokens]
  /\ charged = NotCharged

\* abi.encode(["uint48","uint48","bytes"], [validUntil, validAfter, sig])
EncodePaymasterData(validUntil, validAfter, sig) ==
  <<validUntil, validAfter, sig>>

\* buildPaymasterAndData: paymaster ++ verificationGasLimit ++ postOpGasLimit
\* ++ paymasterData
buildPaymasterAndData(paymasterAddress, validUntil, validAfter, signature) ==
  <<ToLower(paymasterAddress), 300000, 100000,
    EncodePaymasterData(validUntil, validAfter, signature)>>

\* userOp.paymasterAndData[PAYMASTER_DATA_OFFSET:]
PaymasterDataOf(paymasterAndData) == paymasterAndData[4]

\* abi.decode(paymasterData, (uint48, uint48, bytes))
DecodePaymasterData(paymasterData) ==
  [validUntil |-> paymasterData[1], validAfter |-> paymasterData[2],
   signature |-> paymasterData[3]]

\* the packing that leaves validUntil out (0: no expiry)
_packValidationData_noUntil(sigFailed, validUntil, validAfter) ==
  [sigFailed |-> sigFailed, validUntil |-> 0, validAfter |-> validAfter]

\* _packValidationData(sigFailed, validUntil, validAfter)
_packValidationData(sigFailed, validUntil, validAfter) ==
  [sigFailed |-> sigFailed, validUntil |-> validUntil,
   validAfter |-> validAfter]

\* the backend issues an authorization for (sender, paymaster): the route's
\* signSponsorAuthorization + buildPaymasterAndData, or buildSponsorshipData
IssueAuthorization(sender, paymasterAddress, byRoute) ==
  LET a == IF byRoute
           THEN RouteAuthorization(paymasterAddress, sender, NowSeconds)
           ELSE SponsorshipData(paymasterAddress, sender,
                  [validAfter |-> NowSeconds - ClockSkewSeconds,
                   validUntil |-> NowSeconds + DefaultValiditySeconds])
  IN /\ inFlight' = [issued |-> TRUE, sender |-> sender,
                 paymasterAddress |-> paymasterAddress,
                 validUntil |-> a.validUntil, validAfter |-> a.validAfter,
                 paymasterAndData |->
                   buildPaymasterAndData(paymasterAddress, a.validUntil,
                                         a.validAfter, a.sponsorSignature)]
     /\ val' = NoValidation
     /\ UNCHANGED <<sponsorSigner, tokenPricePerGas, allowance, accountingVars>>

\* the validator hashing validAfter before validUntil
ValidationData_swapped(self, chainid, userOp, maxCost) ==
  LET d == DecodePaymasterData(PaymasterDataOf(userOp.paymasterAndData))
      hash == AuthHash(userOp.sender, d.validAfter, d.validUntil, self,
                       chainid, EntryPointV07)
      recovered == recover(toEthSignedMessageHash(hash), d.signature)
      maxTokenCost == (maxCost * tokenPricePerGas) \div E18
  IN IF recovered # sponsorSigner[self]
       THEN _packValidationData(TRUE, d.validUntil, d.validAfter)
     ELSE IF self = ERC20Paymaster /\ allowance[ToLower(userOp.sender)] < maxTokenCost
       THEN _packValidationData(TRUE, d.validUntil, d.validAfter)
     ELSE _packValidationData(FALSE, d.validUntil, d.validAfter)

\* the validator hashing the native paymaster's address instead of its own
ValidationData_fixedPaymaster(self, chainid, userOp, maxCost) ==
  LET d == DecodePaymasterData(PaymasterDataOf(userOp.paymasterAndData))
      hash == AuthHash(userOp.sender, d.validUntil, d.validAfter,
                       NativePaymaster,
                       chainid, EntryPointV07)
      recovered == recover(toEthSignedMessageHash(hash), d.signature)
      maxTokenCost == (maxCost * tokenPricePerGas) \div E18
  IN IF recovered # sponsorSigner[self]
       THEN _packValidationData(TRUE, d.validUntil, d.validAfter)
     ELSE IF self = ERC20Paymaster /\ allowance[ToLower(userOp.sender)] < maxTokenCost
       THEN _packValidationData(TRUE, d.validUntil, d.validAfter)
     ELSE _packValidationData(FALSE, d.validUntil, d.validAfter)

\* the validator testing the token allowance at both paymasters
ValidationData_allowanceEverywhere(self, chainid, userOp, maxCost) ==
  LET d == DecodePaymasterData(PaymasterDataOf(userOp.paymasterAndData))
      hash == AuthHash(userOp.sender, d.validUntil, d.validAfter, self,
                       chainid, EntryPointV07)
      recovered == recover(toEthSignedMessageHash(hash), d.signature)
      maxTokenCost == (maxCost * tokenPricePerGas) \div E18
  IN IF recovered # sponsorSigner[self]
       THEN _packValidationData(TRUE, d.validUntil, d.validAfter)
     ELSE IF allowance[ToLower(userOp.sender)] < maxTokenCost
       THEN _packValidationData(TRUE, d.validUntil, d.validAfter)
     ELSE _packValidationData(FALSE, d.validUntil, d.validAfter)

\* the validator reporting a signer mismatch without the blob's window
ValidationData_bareFailure(self, chainid, userOp, maxCost) ==
  LET d == DecodePaymasterData(PaymasterDataOf(userOp.paymasterAndData))
      hash == AuthHash(userOp.sender, d.validUntil, d.validAfter, self,
                       chainid, EntryPointV07)
      recovered == recover(toEthSignedMessageHash(hash), d.signature)
      maxTokenCost == (maxCost * tokenPricePerGas) \div E18
  IN IF recovered # sponsorSigner[self]
       THEN _packValidationData(TRUE, 0, 0)
     ELSE IF self = ERC20Paymaster /\ allowance[ToLower(userOp.sender)] < maxTokenCost
       THEN _packValidationData(TRUE, d.validUntil, d.validAfter)
     ELSE _packValidationData(FALSE, d.validUntil, d.validAfter)
\* the validator refusing a sender it has already sponsored
ValidationData_oneShot(self, chainid, userOp, maxCost) ==
  LET d == DecodePaymasterData(PaymasterDataOf(userOp.paymasterAndData))
      hash == AuthHash(userOp.sender, d.validUntil, d.validAfter, self,
                       chainid, EntryPointV07)
      recovered == recover(toEthSignedMessageHash(hash), d.signature)
      maxTokenCost == (maxCost * tokenPricePerGas) \div E18
  IN IF recovered # sponsorSigner[self]
       THEN _packValidationData(TRUE, d.validUntil, d.validAfter)
     ELSE IF sponsoredOpsCount[ToLower(userOp.sender)] > 0
       THEN _packValidationData(TRUE, d.validUntil, d.validAfter)
     ELSE IF self = ERC20Paymaster /\ allowance[ToLower(userOp.sender)] < maxTokenCost
       THEN _packValidationData(TRUE, d.validUntil, d.validAfter)
     ELSE _packValidationData(FALSE, d.validUntil, d.validAfter)
\* _validatePaymasterUserOp of the paymaster deployed at self on chain
\* chainid, for userOp = [sender, paymasterAndData] and maxCost: the packed
\* validationData (context left out)
ValidationData(self, chainid, userOp, maxCost) ==
  LET d == DecodePaymasterData(PaymasterDataOf(userOp.paymasterAndData))
      hash == AuthHash(userOp.sender, d.validUntil, d.validAfter, self,
                       chainid, EntryPointV07)
      recovered == recover(toEthSignedMessageHash(hash), d.signature)
      maxTokenCost == (maxCost * tokenPricePerGas) \div E18
  IN IF recovered # sponsorSigner[self]
       THEN _packValidationData(TRUE, d.validUntil, d.validAfter)
     ELSE IF self = ERC20Paymaster /\ allowance[ToLower(userOp.sender)] < maxTokenCost
       THEN _packValidationData(TRUE, d.validUntil, d.validAfter)
     ELSE _packValidationData(FALSE, d.validUntil, d.validAfter)

\* the entry point validates an operation of opSender that carries the
\* authorization in flight, as issued or with validUntil / validAfter
\* altered or with the altered fields re-signed by another key (tamper);
\* val holds the outcome until the next transaction
ValidatePaymasterUserOp(self, chainid, opSender, tamper, maxCost) ==
  /\ inFlight.issued
  /\ LET d == DecodePaymasterData(PaymasterDataOf(inFlight.paymasterAndData))
         vu == d.validUntil + (IF tamper \in {"validUntil", "resign"}
                               THEN 1 ELSE 0)
         va == d.validAfter - (IF tamper = "validAfter" THEN 1 ELSE 0)
         sig == IF tamper = "resign"
                THEN signMessage(AttackerAddr,
                       AuthHash(opSender, vu, va, self, chainid, EntryPointV07))
                ELSE d.signature
         userOp == [sender |-> opSender,
                    paymasterAndData |->
                      <<self, 300000, 100000, EncodePaymasterData(vu, va, sig)>>]
     IN val' = [done |-> TRUE, self |-> self, chainid |-> chainid,
                sender |-> opSender, validUntil |-> vu, validAfter |-> va,
                signature |-> sig, maxCost |-> maxCost,
                asIssued |-> /\ tamper = "none"
                             /\ ToLower(opSender) = ToLower(inFlight.sender)
                             /\ self = inFlight.paymasterAddress
                             /\ chainid = ChainId,
                validationData |->
                  ValidationData(self, chainid, userOp, maxCost)]
  /\ UNCHANGED <<sponsorSigner, tokenPricePerGas, allowance, inFlight,
                 accountingVars>>

\* setSponsorSigner(_newSigner) onlyOwner
setSponsorSigner(self, caller, newSigner) ==
  /\ caller = owner
  /\ newSigner # ZeroAddress
  /\ sponsorSigner' = [sponsorSigner EXCEPT ![self] = newSigner]
  /\ val' = NoValidation
  /\ UNCHANGED <<tokenPricePerGas, allowance, inFlight, accountingVars>>

\* setTokenPrice(_newPrice) onlyOwner
setTokenPrice(caller, newPrice) ==
  /\ caller = owner
  /\ newPrice > 0
  /\ tokenPricePerGas' = newPrice
  /\ val' = NoValidation
  /\ UNCHANGED <<sponsorSigner, allowance, inFlight, accountingVars>>

\* ERC20.approve(paymaster, amount) by sender
approve(sender, amount) ==
  /\ allowance' = [allowance EXCEPT ![ToLower(sender)] = amount]
  /\ val' = NoValidation
  /\ UNCHANGED <<sponsorSigner, tokenPricePerGas, inFlight, accountingVars>>

\* _postOp crediting the cost to every sender's total
_postOp_sharedTotal(sender, actualGasCost) ==
  /\ Len(postOps) < MaxPostOps
  /\ sponsoredGas' = [a \in DOMAIN sponsoredGas |-> sponsoredGas[a] + actualGasCost]
  /\ sponsoredOpsCount' = [sponsoredOpsCount EXCEPT ![sender] = @ + 1]
  /\ postOps' = Append(postOps, [sender |-> sender, actualGasCost |-> actualGasCost])
  /\ UNCHANGED <<sponsorSigner, tokenPricePerGas, allowance, inFlight, val,
                 tokenOpVars>>

\* BlindBidNativePaymaster._postOp(mode, context, actualGasCost, ...) with
\* context = abi.encode(sender), as the validation returned it
_postOp(sender, actualGasCost) ==
  /\ Len(postOps) < MaxPostOps
  /\ sponsoredGas' = [sponsoredGas EXCEPT ![sender] = @ + actualGasCost]
  /\ sponsoredOpsCount' = [sponsoredOpsCount EXCEPT ![sender] = @ + 1]
  /\ postOps' = Append(postOps, [sender |-> sender, actualGasCost |-> actualGasCost])
  /\ UNCHANGED <<sponsorSigner, tokenPricePerGas, allowance, inFlight, val,
                 tokenOpVars>>

\* the entry point's validation phase for an operation of opSender at the
\* token paymaster, carrying the authorization in flight: the validationData
\* and, when the validation passes, context = abi.encode(sender,
\* maxTokenCost), held with the operation's maxCost until its post-execution
ValidateTokenOp(opSender, maxCost) ==
  /\ inFlight.issued
  /\ ~context.active
  /\ LET userOp == [sender |-> opSender,
                    paymasterAndData |-> inFlight.paymasterAndData]
         d == DecodePaymasterData(PaymasterDataOf(userOp.paymasterAndData))
         vd == ValidationData(ERC20Paymaster, ChainId, userOp, maxCost)
     IN /\ val' = [done |-> TRUE, self |-> ERC20Paymaster, chainid |-> ChainId,
                   sender |-> opSender, validUntil |-> d.validUntil,
                   validAfter |-> d.validAfter, signature |-> d.signature,
                   maxCost |-> maxCost,
                   asIssued |-> /\ ToLower(opSender) = ToLower(inFlight.sender)
                                /\ ERC20Paymaster = inFlight.paymasterAddress,
                   validationData |-> vd]
        /\ context' = IF vd.sigFailed
                        THEN NoContext
                        ELSE [active |-> TRUE, sender |-> opSender,
                              maxTokenCost |->
                                (maxCost * tokenPricePerGas) \div E18,
                              maxCost |-> maxCost, userOp |-> userOp]
  /\ UNCHANGED <<sponsorSigner, tokenPricePerGas, allowance, inFlight,
                 sponsoredGas, sponsoredOpsCount, postOps, tokensPaid,
                 balanceOf, charged>>

\* BlindBidERC20Paymaster._postOp(mode, context, actualGasCost, ...) for the
\* operation in progress, whose actual fee cost the entry point keeps within
\* its maxCost: token.safeTransferFrom(sender, this, tokenCost) reverts the
\* hook when the approval or the balance is short
TokenPostOp(actualGasCost) ==
  /\ context.active
  /\ actualGasCost <= context.maxCost
  /\ LET sender == ToLower(context.sender)
         tokenCost == (actualGasCost * tokenPricePerGas) \div E18
         reverted == /\ tokenCost > 0
                     /\ \/ allowance[sender] < tokenCost
                        \/ balanceOf[sender] < tokenCost
         pulled == IF reverted THEN 0 ELSE tokenCost
     IN /\ allowance' = [allowance EXCEPT ![sender] = @ - pulled]
        /\ balanceOf' = [balanceOf EXCEPT ![sender] = @ - pulled]
        /\ tokensPaid' = [tokensPaid EXCEPT ![sender] = @ + pulled]
        /\ charged' = [done |-> TRUE, reverted |-> reverted,
                       sender |-> sender, pulled |-> pulled,
                       actualGasCost |-> actualGasCost,
                       maxCost |-> context.maxCost,
                       maxTokenCost |-> context.maxTokenCost,
                       userOp |-> context.userOp]
  /\ context' = NoContext
  /\ val' = NoValidation
  /\ UNCHANGED <<sponsorSigner, tokenPricePerGas, inFlight, sponsoredGas,
                 sponsoredOpsCount, postOps>>

\* operations at the token paymaster between the owner's price updates and
\* the sender's approvals
TokenOpNext ==
  \/ IssueAuthorization("0xab", ERC20Paymaster, TRUE)
  \/ \E mc \in {0, E18} : ValidateTokenOp("0xab", mc)
  \/ \E c \in {0, E18 \div 2, E18} : TokenPostOp(c)
  \/ \E pr \in 1..MaxPrice : setTokenPrice(owner, pr)
  \/ \E a \in 0..MaxPrice : approve("0xab", a)

\* validations and post-executions at both paymasters under an unchanged
\* registered signer
ValidatorsNext ==
  \/ \E p \in Paymasters : IssueAuthorization("0xab", p, TRUE)
  \/ \E mc \in {0, E18} :
        ValidatePaymasterUserOp(NativePaymaster, ChainId, "0xab", "none", mc)
  \/ _postOp("0xab", MaxGasCost)
  \/ \E mc \in {0, E18} : ValidateTokenOp("0xab", mc)
  \/ \E c \in {0, E18} : TokenPostOp(c)
  \/ \E a \in 0..MaxPrice : approve("0xab", a)
\* the post-execution calls the entry point makes
PostOpNext ==
  \E s \in {"0xab", "0xcd"}, c \in 0..MaxGasCost : _postOp(s, c)

PaymasterNext ==
  \/ \E s \in Addresses, p \in Paymasters, r \in BOOLEAN :
        IssueAuthorization(s, p, r)
  \/ \E p \in Paymasters, c \in {ChainId, OtherChainId},
        s \in {"0xab", "0xcd"},
        t \in {"none", "validUntil", "validAfter", "resign"},
        mc \in {0, E18} : ValidatePaymasterUserOp(p, c, s, t, mc)
  \/ \E p \in Paymasters, c \in {owner, AttackerAddr},
        n \in {SponsorSignerAddr, AttackerAddr, ZeroAddress} :
        setSponsorSigner(p, c, n)
  \/ \E c \in {owner, AttackerAddr}, pr \in 0..MaxPrice : setTokenPrice(c, pr)
  \/ \E s \in {"0xab", "0xcd"}, a \in {0, MaxPrice} : approve(s, a)

\* the request meets a registered, unexpired policy of its scope and its
\* selector is permitted
Eligible(sender, auctionId, selector) ==
  LET bk == ToLower(sender)
  IN /\ bk \in DOMAIN policyStore
     /\ ~(policyStore[bk].expiresAt < NowSeconds)
     /\ policyStore[bk].auctionId = auctionId
     /\ \/ policyStore[bk].allowedSelectors = {}
        \/ selector \in policyStore[bk].allowedSelectors

\* POST /api/sponsor/sign handled with no other handler running between its
\* awaits: SignStart, SignChainId, SignPolicyCheck, BuildChainId,
\* BuildSigned and SignRespond in one step (the outbound calls succeed)
SignSequential(i, sender, auctionId, selector, paymasterAddress) ==
  /\ req[i].pc \in {"idle", "done"}
  /\ LET r == [sender |-> sender, auctionId |-> auctionId,
               selector |-> selector]
         bk == ToLower(sender)
         auth == RouteAuthorization(paymasterAddress, sender, NowSeconds)
         c == AbuseControls(sender, auctionId, selector)
         q == GetOr(quota, bk, FreshQuota)
         full == Len(FilterWindow(GetOr(rateLimitTimestamps, bk, <<>>),
                                  clock)) >= HourlyCap
     IN /\ IF c.err = "ok"
           THEN /\ UpdateCounters(c)
                /\ buildResult' =
                     [err |-> "ok", sender |-> sender, auctionId |-> auctionId,
                      data |-> SponsorshipData(paymasterAddress, sender, c)]
                /\ issued' = MapSet(issued, bk, GetOr(issued, bk, 0) + 1)
           ELSE /\ buildResult' = [err |-> c.err, sender |-> sender,
                                   auctionId |-> auctionId]
                /\ UNCHANGED <<opsCounter, rateLimitTimestamps, issued>>
        /\ req' = [req EXCEPT ![i] =
             Respond(r, 200, auth,
                     IF c.err = "ok" THEN "passed" ELSE "no_policy", "none")]
        /\ quota' = IF Eligible(sender, auctionId, selector)
                    THEN MapSet(quota, bk,
                           [n |-> IF q.n > MaxOps THEN q.n ELSE q.n + 1,
                            last |-> c.err,
                            clean |-> q.clean /\ ~full])
                    ELSE quota
  /\ UNCHANGED <<policyStore, clock, started>>

\* the requests the model issues
SponsorNext(beneficiaries, senders, scopes, expiries, selectors, paymasters) ==
  \/ \E b \in beneficiaries, a \in scopes,
        sel \in {{}, {"0xaaaaaaaa"}}, m \in 0..MaxOps, e \in expiries :
        PostPolicy(a, b, sel, m, e)
  \/ \E i \in DOMAIN req, s \in senders, a \in scopes, sel \in selectors,
        pm \in paymasters : SignStart(i, s, a, sel, pm)
  \/ \E i \in DOMAIN req, ok \in BOOLEAN : SignChainId(i, ok)
  \/ \E i \in DOMAIN req : SignPolicyCheck(i)
  \/ \E i \in DOMAIN req, ok \in BOOLEAN : BuildChainId(i, ok)
  \/ \E i \in DOMAIN req : BuildSigned(i)
  \/ \E i \in DOMAIN req : BuildSignFailed(i)
  \/ \E i \in DOMAIN req, ok \in BOOLEAN : SignRespond(i, ok)
  \/ Tick

SponsorSeqNext ==
  \/ \E b \in {"0xAB"}, a \in {"A1"},
        sel \in {{}, {"0xaaaaaaaa"}}, m \in 0..MaxOps, e \in {0 - 1, 3600} :
        PostPolicy(a, b, sel, m, e)
  \/ \E i \in DOMAIN req, s \in {"0xab", "0xcd"}, a \in Scopes,
        sel \in Selectors : SignSequential(i, s, a, sel, NativePaymaster)

\* one beneficiary registered under either scope and asking for
\* sponsorship under either scope, the requests handled one after another
SponsorScopesNext ==
  \/ \E a \in Scopes : PostPolicy(a, "0xAB", {}, MaxOps, 3600)
  \/ \E i \in DOMAIN req, a \in Scopes :
        SignSequential(i, "0xab", a, "0xaaaaaaaa", NativePaymaster)

(***************************************************************************)
(* QUOTE SERVICE  (quoteService.ts)                                        *)
(* A fiat amount is counted in units of 0.004 (FiatUnitMilli thousandths), *)
(* an exchange rate in thousandths of a token per fiat unit, and a token   *)
(* amount in units of 1e12 wei (the sixth decimal kept by toFixed(6)).     *)
(***************************************************************************)
VARIABLES quote, verified

\* the checkout service's session store, the sessions whose
\* generateSessionQuote is awaiting its quote, and the service's clock in
\* seconds
VARIABLES sessions, quoting, sessionNow

checkoutVars == <<sessions, quoting, sessionNow>>

quoteVars == <<quote, verified, checkoutVars>>

MaxSessions == 2
MaxSessionTicks == 1
DEFAULT_SESSION_TTL == 30 * 60

MaxFiat == 3

FiatUnitMilli == 4
FiatCurrencies == {"USD", "AED"}
SettlementTokens == {"ADI_NATIVE", "MOCK_ERC20"}
RATES == [USD |-> 10000, AED |-> 2720]
MAX_SLIPPAGE_BPS == 50
DefaultQuoteValiditySeconds == 600

NoQuote == [ok |-> FALSE, error |-> "none"]
NotVerified == [done |-> FALSE]

InitQuoteVars ==
  /\ quote = NoQuote
  /\ verified = NotVerified
  /\ sessions = <<>>
  /\ quoting = {}
  /\ sessionNow = 0

\* Math.round(fiatAmount * 100): the nearest whole number of cents
RoundCents(fiatAmount) == (fiatAmount * FiatUnitMilli + 5) \div 10

\* ethers.parseEther((fiatAmount * rate).toFixed(6))
TokenAmount(fiatAmount, rate) == fiatAmount * FiatUnitMilli * rate

\* keccak256(abi.encode(["string","uint256","string","uint256","uint256"],
\* [auctionId, Math.round(fiatAmount * 100), fiatCurrency, tokenAmount,
\*  validUntil]))
QuoteHash(auctionId, fiatAmount, fiatCurrency, tokenAmount, validUntil) ==
  <<"keccak", auctionId, RoundCents(fiatAmount), fiatCurrency, tokenAmount,
    validUntil>>

\* generateQuote with the amount test written fiatAmount < 0
generateQuote_zeroAllowed(auctionId, fiatAmount, fiatCurrency, settlementToken, validitySeconds) ==
  IF fiatAmount < 0
  THEN [ok |-> FALSE, error |-> "fiatAmount must be > 0"]
  ELSE LET rate == RATES[fiatCurrency]
           tokenAmount == TokenAmount(fiatAmount, rate)
           validUntil == NowSeconds + validitySeconds
           hash == QuoteHash(auctionId, fiatAmount, fiatCurrency,
                             tokenAmount, validUntil)
       IN [ok |-> TRUE,
           value |-> [auctionId |-> auctionId,
                      fiatAmount |-> fiatAmount,
                      fiatCurrency |-> fiatCurrency,
                      tokenAmount |-> tokenAmount,
                      settlementToken |-> settlementToken,
                      exchangeRate |-> rate,
                      maxSlippageBps |-> MAX_SLIPPAGE_BPS,
                      validUntil |-> validUntil,
                      signature |-> signMessage(SponsorSignerAddr, hash)]]
generateQuote(auctionId, fiatAmount, fiatCurrency, settlementToken, validitySeconds) ==
  IF fiatAmount <= 0
  THEN [ok |-> FALSE, error |-> "fiatAmount must be > 0"]
  ELSE LET rate == RATES[fiatCurrency]
           tokenAmount == TokenAmount(fiatAmount, rate)
           validUntil == NowSeconds + validitySeconds
           hash == QuoteHash(auctionId, fiatAmount, fiatCurrency,
                             tokenAmount, validUntil)
       IN [ok |-> TRUE,
           value |-> [auctionId |-> auctionId,
                      fiatAmount |-> fiatAmount,
                      fiatCurrency |-> fiatCurrency,
                      tokenAmount |-> tokenAmount,
                      settlementToken |-> settlementToken,
                      exchangeRate |-> rate,
                      maxSlippageBps |-> MAX_SLIPPAGE_BPS,
                      validUntil |-> validUntil,
                      signature |-> signMessage(SponsorSignerAddr, hash)]]

\* verifyQuote refusing a quote whose validUntil has passed
verifyQuote_checksExpiry(q) ==
  LET hash == QuoteHash(q.auctionId, q.fiatAmount, q.fiatCurrency,
                        q.tokenAmount, q.validUntil)
      recovered == recover(toEthSignedMessageHash(hash), q.signature)
  IN /\ ToLower(recovered) = ToLower(SponsorSignerAddr)
     /\ q.validUntil >= NowSeconds
verifyQuote(q) ==
  LET hash == QuoteHash(q.auctionId, q.fiatAmount, q.fiatCurrency,
                        q.tokenAmount, q.validUntil)
      recovered == recover(toEthSignedMessageHash(hash), q.signature)
  IN ToLower(recovered) = ToLower(SponsorSignerAddr)

\* a call of generateQuote
GenerateQuote(auctionId, fiatAmount, fiatCurrency, settlementToken, validitySeconds) ==
  /\ quote' = generateQuote(auctionId, fiatAmount, fiatCurrency,
                            settlementToken, validitySeconds)
  /\ verified' = NotVerified
  /\ UNCHANGED checkoutVars

\* the quotes a holder of q can present: q itself and q with one field
\* replaced
Presentable(q) ==
       {[q EXCEPT !.auctionId = v] : v \in Scopes}
  \cup {[q EXCEPT !.fiatAmount = v] : v \in 1..MaxFiat + 1}
  \cup {[q EXCEPT !.fiatCurrency = v] : v \in FiatCurrencies}
  \cup {[q EXCEPT !.tokenAmount = v] : v \in {q.tokenAmount, q.tokenAmount + 1}}
  \cup {[q EXCEPT !.settlementToken = v] : v \in SettlementTokens}
  \cup {[q EXCEPT !.exchangeRate = v] : v \in {RATES[c] : c \in FiatCurrencies}}
  \cup {[q EXCEPT !.maxSlippageBps = v] : v \in {MAX_SLIPPAGE_BPS, 10000}}
  \cup {[q EXCEPT !.validUntil = v] : v \in {q.validUntil, q.validUntil + 1}}
  \cup {[q EXCEPT !.signature = v] :
          v \in {signMessage(AttackerAddr, q.signature.digest[2]),
                 signMessage(SponsorSignerAddr, <<"keccak", "other">>)}}

\* a call of verifyQuote on a presented quote
VerifyQuote(presented) ==
  /\ verified' = [done |-> TRUE, quote |-> presented,
                  valid |-> verifyQuote(presented)]
  /\ UNCHANGED <<quote, checkoutVars>>

QuoteNext ==
  \/ \E a \in Scopes, f \in (0 - 1)..MaxFiat, c \in FiatCurrencies,
        t \in SettlementTokens, v \in {DefaultQuoteValiditySeconds, 60} :
        GenerateQuote(a, f, c, t, v)
  \/ /\ quote.ok
     /\ \E p \in Presentable(quote.value) : VerifyQuote(p)

(***************************************************************************)
(* CHECKOUT SESSIONS  (checkoutService.ts)                                 *)
(* session ids are the positions 1, 2, ... in sessions                     *)
(***************************************************************************)
Merchants == {"MERCHANT-SELLER-001"}

\* createCheckoutSession(params) with the merchant's preferred currency and
\* settlement token
createCheckoutSession(auctionId, merchantId, fiatAmount) ==
  /\ Len(sessions) < MaxSessions
  /\ IF merchantId \notin Merchants
     THEN UNCHANGED sessions          \* MERCHANT_NOT_FOUND
     ELSE sessions' = Append(sessions,
            [auctionId |-> auctionId, merchantId |-> merchantId,
             fiatAmount |-> fiatAmount, fiatCurrency |-> "USD",
             settlementToken |-> "ADI_NATIVE", status |-> "pending",
             expiresAt |-> sessionNow + DEFAULT_SESSION_TTL,
             tokenAmount |-> 0, paymentTxHash |-> "none"])
  /\ UNCHANGED <<quoting, sessionNow>>

\* generateSessionQuote(sessionId) up to its await of generateQuote
GenerateSessionQuoteStart(sessionId) ==
  /\ sessionId \notin quoting
  /\ IF sessionId \notin DOMAIN sessions
     THEN UNCHANGED quoting           \* SESSION_NOT_FOUND
     ELSE IF sessions[sessionId].status # "pending"
     THEN UNCHANGED quoting           \* SESSION_INVALID_STATE
     ELSE quoting' = quoting \cup {sessionId}
  /\ UNCHANGED <<sessions, sessionNow>>

\* generateSessionQuote(sessionId) from the return of generateQuote: a
\* rejected quote leaves the session alone, a quote is attached with
\* status quote_ready
GenerateSessionQuoteFinish(sessionId) ==
  /\ sessionId \in quoting
  /\ LET session == sessions[sessionId]
         q == generateQuote(session.auctionId, session.fiatAmount,
                            session.fiatCurrency, session.settlementToken,
                            600)
     IN IF q.ok
        THEN sessions' = [sessions EXCEPT ![sessionId] =
               [session EXCEPT !.tokenAmount = q.value.tokenAmount,
                               !.status = "quote_ready"]]
        ELSE UNCHANGED sessions
  /\ quoting' = quoting \ {sessionId}
  /\ UNCHANGED sessionNow

\* markPaying(sessionId, txHash)
markPaying(sessionId, txHash) ==
  /\ IF sessionId \notin DOMAIN sessions
     THEN UNCHANGED sessions          \* SESSION_NOT_FOUND
     ELSE IF sessions[sessionId].status # "quote_ready"
     THEN UNCHANGED sessions          \* SESSION_INVALID_STATE
     ELSE sessions' = [sessions EXCEPT ![sessionId].paymentTxHash = txHash,
                                       ![sessionId].status = "paying"]
  /\ UNCHANGED <<quoting, sessionNow>>

\* confirmPayment(sessionId)
confirmPayment(sessionId) ==
  /\ IF sessionId \notin DOMAIN sessions
     THEN UNCHANGED sessions          \* SESSION_NOT_FOUND
     ELSE sessions' = [sessions EXCEPT ![sessionId].status = "completed"]
  /\ UNCHANGED <<quoting, sessionNow>>

\* expireSession(sessionId)
expireSession(sessionId) ==
  /\ IF sessionId \notin DOMAIN sessions
     THEN UNCHANGED sessions          \* SESSION_NOT_FOUND
     ELSE sessions' = [sessions EXCEPT ![sessionId].status = "expired"]
  /\ UNCHANGED <<quoting, sessionNow>>

\* getSession(sessionId), which expires a session past its TTL
getSession(sessionId) ==
  /\ IF /\ sessionId \in DOMAIN sessions
        /\ sessionNow > sessions[sessionId].expiresAt
        /\ sessions[sessionId].status \notin {"completed", "expired", "failed"}
     THEN sessions' = [sessions EXCEPT ![sessionId].status = "expired"]
     ELSE UNCHANGED sessions
  /\ UNCHANGED <<quoting, sessionNow>>

\* the clock passes a session lifetime
SessionTimePasses ==
  /\ sessionNow < MaxSessionTicks * (DEFAULT_SESSION_TTL + 1)
  /\ sessionNow' = sessionNow + DEFAULT_SESSION_TTL + 1
  /\ UNCHANGED <<sessions, quoting>>

CheckoutNext ==
  \/ \E m \in Merchants \cup {"MERCHANT-UNKNOWN"}, f \in 0..1 :
        createCheckoutSession("A1", m, f)
  \/ \E i \in 1..MaxSessions : GenerateSessionQuoteStart(i)
  \/ \E i \in 1..MaxSessions : GenerateSessionQuoteFinish(i)
  \/ \E i \in 1..MaxSessions : markPaying(i, "0xtx")
  \/ \E i \in 1..MaxSessions : confirmPayment(i)
  \/ \E i \in 1..MaxSessions : expireSession(i)
  \/ \E i \in 1..MaxSessions : getSession(i)
  \/ SessionTimePasses

(***************************************************************************)
(* AUDIT COMMITMENT CHAIN  (hederaService.ts)                              *)
(* hcs holds, for every topic of the public log, the number of messages    *)
(* it has sequenced; the log numbers the messages of a topic 1, 2, 3, ...  *)
(***************************************************************************)
VARIABLES auditLog, topicCache, hcs, pub, hederaKey, checked

auditVars == <<auditLog, topicCache, hcs, pub, hederaKey, checked>>

MaxPublish == 2

Stages == {"created", "awarded"}
CantonPending == "CANTON-PENDING"
AdiPending == "ADI-PENDING"
CantonRefs == {CantonPending, "ref-a"}
AdiRefs == {AdiPending, "ref-b"}
\* ethers.hexlify(ethers.randomBytes(16))
Nonces == {"0x01", "0x02"}

IdlePub == [pc |-> "idle"]
NotChecked == [done |-> FALSE]

InitAuditVars(ids) ==
  /\ auditLog = <<>>
  /\ topicCache = <<>>
  /\ hcs = <<>>
  /\ pub = [i \in ids |-> IdlePub]
  /\ hederaKey \in BOOLEAN
  /\ checked = NotChecked

\* buildClient() !== null
HasClient == hederaKey

\* new Date().toISOString()
IsoTimestamp(ms) == <<"iso", ms>>

\* keccak256(toUtf8Bytes(JSON.stringify({auctionId, stage, cantonTxId,
\* adiTxHash, timestamp, nonce})))
buildCommitmentHash(auctionId, stage, cantonTxId, adiTxHash, timestamp, nonce) ==
  <<"keccak", <<"auctionId", auctionId>>, <<"stage", stage>>,
    <<"cantonTxId", cantonTxId>>, <<"adiTxHash", adiTxHash>>,
    <<"timestamp", timestamp>>, <<"nonce", nonce>>>>

\* the commitment publishCommitment builds before its first await
Commitment(auctionId, stage, cantonTxId, adiTxHash, nonce) ==
  LET timestamp == IsoTimestamp(clock)
  IN [auctionId |-> auctionId, stage |-> stage, cantonTxId |-> cantonTxId,
      adiTxHash |-> adiTxHash, timestamp |-> timestamp, nonce |-> nonce,
      commitmentHash |->
        buildCommitmentHash(auctionId, stage, cantonTxId, adiTxHash,
                            timestamp, nonce)]

\* the message that omits nothing: the whole commitment
TopicMessage_wholeCommitment(commitment) == commitment

\* JSON.stringify({commitmentHash, stage, timestamp}), the message submitted
\* to the topic
TopicMessage(commitment) ==
  [commitmentHash |-> commitment.commitmentHash, stage |-> commitment.stage,
   timestamp |-> commitment.timestamp]

\* `0.0.MOCK-${auctionId.slice(-6)}`
MockTopic(auctionId) == <<"0.0.MOCK", auctionId>>
\* receipt.topicId of the n-th topic the network creates
NewTopic == <<"0.0", Cardinality(DOMAIN hcs) + 1>>

\* auditLog.filter((e) => e.auctionId === auctionId)
getAuditLog(auctionId) == SelectSeq(auditLog, LAMBDA e : e.auctionId = auctionId)

\* auditLog.filter(...).length + 1
LocalSequenceNumber(auctionId) == Len(getAuditLog(auctionId)) + 1

\* { ...commitment, hederaTopicId, hederaSequenceNumber,
\*   hederaConsensusTimestamp }
AuditLogEntry(commitment, topicId, sequenceNumber) ==
  [auctionId |-> commitment.auctionId, stage |-> commitment.stage,
   cantonTxId |-> commitment.cantonTxId, adiTxHash |-> commitment.adiTxHash,
   timestamp |-> commitment.timestamp, nonce |-> commitment.nonce,
   commitmentHash |-> commitment.commitmentHash,
   hederaTopicId |-> topicId, hederaSequenceNumber |-> sequenceNumber,
   hederaConsensusTimestamp |-> commitment.timestamp]

\* the entry put in front of the log (unshift) instead of behind it
PushEntry_unshift(i, commitment, topicId, sequenceNumber) ==
  LET entry == AuditLogEntry(commitment, topicId, sequenceNumber)
  IN /\ auditLog' = <<entry>> \o auditLog
     /\ pub' = [pub EXCEPT ![i] = [pc |-> "done", entry |-> entry]]
\* auditLog.push(entry); return entry
PushEntry(i, commitment, topicId, sequenceNumber) ==
  LET entry == AuditLogEntry(commitment, topicId, sequenceNumber)
  IN /\ auditLog' = Append(auditLog, entry)
     /\ pub' = [pub EXCEPT ![i] = [pc |-> "done", entry |-> entry]]

\* verifyCommitment accepting every entry that carries a hash
verifyCommitment_hashPresent(entry) ==
  entry.commitmentHash[1] = "keccak"

\* verifyCommitment(entry)
verifyCommitment(entry) ==
  LET expected == buildCommitmentHash(entry.auctionId, entry.stage,
                                      entry.cantonTxId, entry.adiTxHash,
                                      entry.timestamp, entry.nonce)
  IN expected = entry.commitmentHash

\* publishCommitment up to the first suspension of getOrCreateTopic: the
\* commitment is built, then the cached topic, the mock topic, or the
\* TopicCreateTransaction sent
PublishStart(i, auctionId, stage, cantonTxId, adiTxHash, nonce) ==
  /\ pub[i].pc = "idle"
  /\ LET commitment == Commitment(auctionId, stage, cantonTxId, adiTxHash, nonce)
     IN IF auctionId \in DOMAIN topicCache
        THEN /\ pub' = [pub EXCEPT ![i] = [pc |-> "count",
                                           commitment |-> commitment,
                                           topicId |-> topicCache[auctionId]]]
             /\ UNCHANGED topicCache
        ELSE IF ~HasClient
        THEN /\ topicCache' = MapSet(topicCache, auctionId, MockTopic(auctionId))
             /\ pub' = [pub EXCEPT ![i] = [pc |-> "count",
                                           commitment |-> commitment,
                                           topicId |-> MockTopic(auctionId)]]
        ELSE /\ pub' = [pub EXCEPT ![i] = [pc |-> "topic",
                                           commitment |-> commitment]]
             /\ UNCHANGED topicCache
  /\ UNCHANGED <<auditLog, hcs, hederaKey, checked>>

\* the topic creation settles: the new topic is cached, or the call rejects
\* and publishCommitment rejects with it
TopicCreated(i, ok) ==
  /\ pub[i].pc = "topic"
  /\ IF ok
     THEN /\ hcs' = MapSet(hcs, NewTopic, <<>>)
          /\ topicCache' = MapSet(topicCache, pub[i].commitment.auctionId, NewTopic)
          /\ pub' = [pub EXCEPT ![i] = [pc |-> "count",
                                        commitment |-> pub[i].commitment,
                                        topicId |-> NewTopic]]
     ELSE /\ pub' = [pub EXCEPT ![i] = [pc |-> "rejected"]]
          /\ UNCHANGED <<hcs, topicCache>>
  /\ UNCHANGED <<auditLog, hederaKey, checked>>

\* after `await getOrCreateTopic`: the local number is computed; without a
\* client the entry is pushed at once, with one the message is sent
PublishCount(i) ==
  /\ pub[i].pc = "count"
  /\ LET sequenceNumber == LocalSequenceNumber(pub[i].commitment.auctionId)
     IN IF HasClient
        THEN /\ pub' = [pub EXCEPT ![i] =
                          [pc |-> "execute", commitment |-> pub[i].commitment,
                           topicId |-> pub[i].topicId,
                           sequenceNumber |-> sequenceNumber]]
             /\ UNCHANGED auditLog
        ELSE PushEntry(i, pub[i].commitment, pub[i].topicId, sequenceNumber)
  /\ UNCHANGED <<topicCache, hcs, hederaKey, checked>>

\* TopicMessageSubmitTransaction.execute settles: the topic has sequenced
\* the message, or the call throws and the catch keeps the local number
SubmitExecute(i, ok) ==
  /\ pub[i].pc = "execute"
  /\ IF ok
     THEN /\ hcs' = [hcs EXCEPT ![pub[i].topicId] =
                       Append(@, TopicMessage(pub[i].commitment))]
          /\ pub' = [pub EXCEPT ![i] =
                       [pc |-> "receipt", commitment |-> pub[i].commitment,
                        topicId |-> pub[i].topicId,
                        sequenceNumber |-> pub[i].sequenceNumber,
                        topicSequenceNumber |-> Len(hcs[pub[i].topicId]) + 1]]
          /\ UNCHANGED auditLog
     ELSE /\ PushEntry(i, pub[i].commitment, pub[i].topicId,
                       pub[i].sequenceNumber)
          /\ UNCHANGED hcs
  /\ UNCHANGED <<topicCache, hederaKey, checked>>

\* getReceipt settles: the receipt's number replaces the local one, or the
\* call throws and the catch keeps the local number
SubmitReceipt(i, ok) ==
  /\ pub[i].pc = "receipt"
  /\ PushEntry(i, pub[i].commitment, pub[i].topicId,
               IF ok THEN pub[i].topicSequenceNumber
                     ELSE pub[i].sequenceNumber)
  /\ UNCHANGED <<topicCache, hcs, hederaKey, checked>>

\* the calls of publishCommitment the model issues; the call of slot i
\* draws the nonce i
AuditNext(scopes) ==
  \/ \E i \in DOMAIN pub, a \in scopes :
        PublishStart(i, a, "created", CantonPending, AdiPending, <<"0x", i>>)
  \/ \E i \in DOMAIN pub, ok \in BOOLEAN : TopicCreated(i, ok)
  \/ \E i \in DOMAIN pub : PublishCount(i)
  \/ \E i \in DOMAIN pub, ok \in BOOLEAN : SubmitExecute(i, ok)
  \/ \E i \in DOMAIN pub, ok \in BOOLEAN : SubmitReceipt(i, ok)

\* publishCommitment handled with no other call running between its awaits
\* (the topic creation succeeds): the message is sequenced and its receipt
\* read, or the submission throws, or the receipt query throws
PublishSequential(auctionId, stage, cantonTxId, adiTxHash, nonce, outcome) ==
  /\ Len(auditLog) < MaxPublish
  /\ HasClient \/ outcome = "sequenced"
  /\ LET commitment == Commitment(auctionId, stage, cantonTxId, adiTxHash, nonce)
         cached == auctionId \in DOMAIN topicCache
         topicId == IF cached THEN topicCache[auctionId]
                    ELSE IF ~HasClient THEN MockTopic(auctionId)
                    ELSE NewTopic
         topics == IF cached \/ ~HasClient THEN hcs
                   ELSE MapSet(hcs, NewTopic, <<>>)
         sequenceNumber == LocalSequenceNumber(auctionId)
     IN /\ topicCache' = MapSet(topicCache, auctionId, topicId)
        /\ IF HasClient /\ outcome # "submit_failed"
           THEN hcs' = [topics EXCEPT ![topicId] =
                          Append(@, TopicMessage(commitment))]
           ELSE hcs' = topics
        /\ auditLog' = Append(auditLog,
             AuditLogEntry(commitment, topicId,
               IF HasClient /\ outcome = "sequenced"
               THEN Len(topics[topicId]) + 1 ELSE sequenceNumber))
  /\ checked' = NotChecked
  /\ UNCHANGED <<pub, hederaKey>>

\* the fields of a stored entry
EntryFields == {"auctionId", "stage", "cantonTxId", "adiTxHash", "timestamp", "nonce", "commitmentHash", "hederaSequenceNumber", "hederaTopicId", "hederaConsensusTimestamp"}

\* the values a stored field can be changed to
FieldValues(e, field) ==
  CASE field = "auctionId" -> Scopes
    [] field = "stage" -> Stages
    [] field = "cantonTxId" -> CantonRefs
    [] field = "adiTxHash" -> AdiRefs
    [] field = "timestamp" -> {IsoTimestamp(clock), IsoTimestamp(clock + 1)}
    [] field = "nonce" -> Nonces
    [] field = "commitmentHash" ->
         {buildCommitmentHash(e.auctionId, e.stage, e.cantonTxId, e.adiTxHash,
                              e.timestamp, n) : n \in Nonces}
    [] field = "hederaSequenceNumber" -> {1, 2}
    [] field = "hederaTopicId" -> {MockTopic(e.auctionId), <<"0.0", 1>>}
    [] field = "hederaConsensusTimestamp" ->
         {IsoTimestamp(clock), IsoTimestamp(clock + 1)}

\* the stored entry e with one field changed to another value
Tampered(e, field) ==
  {[e EXCEPT ![field] = v] : v \in FieldValues(e, field) \ {e[field]}}

\* verifyCommitment is called on the n-th stored entry as recorded
\* (field = "none") or after the named field of it was changed
VerifyCommitment(n, field, presented) ==
  /\ checked' = [done |-> TRUE, n |-> n, field |-> field,
                 entry |-> presented, valid |-> verifyCommitment(presented)]
  /\ UNCHANGED <<auditLog, topicCache, hcs, pub, hederaKey>>

AuditSeqNext ==
  \/ \E a \in Scopes, st \in Stages, nonce \in Nonces,
        o \in {"sequenced", "submit_failed", "receipt_failed"} :
        PublishSequential(a, st, "ref-a", "ref-b", nonce, o)
  \/ \E n \in 1..Len(auditLog) : VerifyCommitment(n, "none", auditLog[n])
  \/ \E n \in 1..Len(auditLog), f \in EntryFields :
        \E p \in Tampered(auditLog[n], f) : VerifyCommitment(n, f, p)

vars == <<escrowVars, sponsorVars, paymasterVars, quoteVars, auditVars>>

\* the sign route under concurrently handled requests
InitSponsor ==
  /\ InitSponsorVars(1..MaxRequests)
  /\ InitEscrowVars({"k1"}, FALSE)
  /\ InitPaymasterVars
  /\ InitQuoteVars
  /\ InitAuditVars({}) /\ hederaKey
NextSponsor ==
  /\ SponsorNext({"0xAB"}, {"0xab"}, {"A1"}, {0, 3600}, {"0xbbbbbbbb"},
                 {NativePaymaster})
  /\ UNCHANGED <<escrowVars, paymasterVars, quoteVars, auditVars>>
SpecSponsor == InitSponsor /\ [][NextSponsor]_vars

\* the sign route with its requests handled one after another
InitSponsorSeq ==
  /\ InitSponsorVars({1})
  /\ InitEscrowVars({"k1"}, FALSE)
  /\ InitPaymasterVars
  /\ InitQuoteVars
  /\ InitAuditVars({}) /\ hederaKey
NextSponsorSeq ==
  SponsorSeqNext /\ UNCHANGED <<escrowVars, paymasterVars, quoteVars, auditVars>>
SpecSponsorSeq == InitSponsorSeq /\ [][NextSponsorSeq]_vars

\* the sign route for one beneficiary with policies under two scopes
InitSponsorScopes ==
  /\ InitSponsorVars({1})
  /\ InitEscrowVars({"k1"}, FALSE)
  /\ InitPaymasterVars
  /\ InitQuoteVars
  /\ InitAuditVars({}) /\ hederaKey
NextSponsorScopes ==
  SponsorScopesNext /\ UNCHANGED <<escrowVars, paymasterVars, quoteVars, auditVars>>
SpecSponsorScopes == InitSponsorScopes /\ [][NextSponsorScopes]_vars

\* a burst of sign requests of one beneficiary within one hour under a policy
\* registered once whose quota exceeds the hourly cap: the requests of slot 1
\* are handled await by await and may overlap the requests of the other
\* slots, which are handled with no other handler running between their awaits
BurstMaxOps == HourlyCap + MaxSignRequests + 1
SponsorBurstNext ==
  \/ DOMAIN policyStore = {} /\ PostPolicy("A1", "0xAB", {}, BurstMaxOps, 3600)
  \/ \E i \in DOMAIN req \ {1} :
        SignSequential(i, "0xab", "A1", "0xaaaaaaaa", NativePaymaster)
  \/ SignStart(1, "0xab", "A1", "0xaaaaaaaa", NativePaymaster)
  \/ SignChainId(1, TRUE)
  \/ SignPolicyCheck(1)
  \/ BuildChainId(1, TRUE)
  \/ BuildSigned(1)
  \/ SignRespond(1, TRUE)
InitSponsorBurst ==
  /\ InitSponsorVars(1..MaxRequests)
  /\ InitEscrowVars({"k1"}, FALSE)
  /\ InitPaymasterVars
  /\ InitQuoteVars
  /\ InitAuditVars({}) /\ hederaKey
NextSponsorBurst ==
  SponsorBurstNext /\ UNCHANGED <<escrowVars, paymasterVars, quoteVars, auditVars>>
SpecSponsorBurst == InitSponsorBurst /\ [][NextSponsorBurst]_vars

\* the escrow contract with two keys
InitEscrow ==
  /\ InitEscrowVars(AuctionKeys, FALSE)
  /\ InitSponsorVars({})
  /\ InitPaymasterVars
  /\ InitQuoteVars
  /\ InitAuditVars({}) /\ hederaKey
NextEscrow ==
  /\ EscrowNext
  /\ UNCHANGED <<route, reentry, sponsorVars, paymasterVars, quoteVars, auditVars>>
SpecEscrow == InitEscrow /\ [][NextEscrow]_vars

\* the escrow contract with one key and the receipt of every transaction
InitEscrowCalls ==
  /\ InitEscrowVars({"k1"}, TRUE)
  /\ InitSponsorVars({})
  /\ InitPaymasterVars
  /\ InitQuoteVars
  /\ InitAuditVars({}) /\ hederaKey
SpecEscrowCalls == InitEscrowCalls /\ [][NextEscrow]_vars

\* the funds of the escrow contract with two keys
NextEscrowFunds ==
  /\ EscrowFundsNext
  /\ UNCHANGED <<route, reentry, sponsorVars, paymasterVars, quoteVars, auditVars>>
SpecEscrowFunds == InitEscrow /\ [][NextEscrowFunds]_vars
\* payouts of the escrow contract with re-entrant recipients
NextEscrowReentry ==
  EscrowReentryNext /\ UNCHANGED <<sponsorVars, paymasterVars, quoteVars, auditVars>>
SpecEscrowReentry == InitEscrow /\ [][NextEscrowReentry]_vars
\* the backend's escrow routes against the contract with one key
NextEscrowRoutes ==
  EscrowRouteNext /\ UNCHANGED <<sponsorVars, paymasterVars, quoteVars, auditVars>>
SpecEscrowRoutes == InitEscrowCalls /\ [][NextEscrowRoutes]_vars

\* issuance and on-chain validation of authorizations
InitPaymaster ==
  /\ InitPaymasterVars
  /\ InitSponsorVars({})
  /\ InitEscrowVars({"k1"}, FALSE)
  /\ InitQuoteVars
  /\ InitAuditVars({}) /\ hederaKey
NextPaymaster ==
  \/ PaymasterNext /\ UNCHANGED <<escrowVars, sponsorVars, quoteVars, auditVars>>
  \/ Tick /\ val' = NoValidation
          /\ UNCHANGED <<escrowVars, sponsorSigner, tokenPricePerGas,
                         allowance, inFlight, accountingVars, quoteVars,
                         auditVars>>
SpecPaymaster == InitPaymaster /\ [][NextPaymaster]_vars

\* the native paymaster's post-execution hook under the entry point's calls
InitPostOp ==
  /\ InitPaymasterVars
  /\ InitSponsorVars({})
  /\ InitEscrowVars({"k1"}, FALSE)
  /\ InitQuoteVars
  /\ InitAuditVars({}) /\ hederaKey
NextPostOp ==
  PostOpNext /\ UNCHANGED <<escrowVars, sponsorVars, quoteVars, auditVars>>
SpecPostOp == InitPostOp /\ [][NextPostOp]_vars

\* the token paymaster's validation and post-execution hooks
NextTokenOp ==
  TokenOpNext /\ UNCHANGED <<escrowVars, sponsorVars, quoteVars, auditVars>>
SpecTokenOp == InitPostOp /\ [][NextTokenOp]_vars

\* both paymasters' validation and post-execution hooks
NextValidators ==
  ValidatorsNext /\ UNCHANGED <<escrowVars, sponsorVars, quoteVars, auditVars>>
SpecValidators == InitPostOp /\ [][NextValidators]_vars

\* generation and verification of quotes
InitQuote ==
  /\ InitQuoteVars
  /\ InitSponsorVars({})
  /\ InitEscrowVars({"k1"}, FALSE)
  /\ InitPaymasterVars
  /\ InitAuditVars({}) /\ hederaKey
NextQuote ==
  \/ QuoteNext /\ UNCHANGED <<escrowVars, sponsorVars, paymasterVars, auditVars>>
  \/ Tick /\ verified' = NotVerified
          /\ UNCHANGED <<escrowVars, paymasterVars, quote, checkoutVars,
                         auditVars>>
SpecQuote == InitQuote /\ [][NextQuote]_vars

\* the checkout service under any sequence of calls
NextCheckout ==
  CheckoutNext /\ UNCHANGED <<escrowVars, sponsorVars, paymasterVars, quote, verified, auditVars>>
SpecCheckout == InitQuote /\ [][NextCheckout]_vars

\* publishCommitment under concurrently handled calls, with and without a
\* configured log client
InitAudit ==
  /\ InitAuditVars(1..MaxPublish)
  /\ InitQuoteVars
  /\ InitSponsorVars({})
  /\ InitEscrowVars({"k1"}, FALSE)
  /\ InitPaymasterVars
NextAudit ==
  /\ AuditNext(Scopes)
  /\ UNCHANGED <<escrowVars, sponsorVars, paymasterVars, quoteVars>>
SpecAudit == InitAudit /\ [][NextAudit]_vars

\* publishCommitment calls handled one after another, and verifyCommitment
\* on the stored entries as recorded and with one field changed
InitAuditSeq ==
  /\ InitAuditVars({})
  /\ InitQuoteVars
  /\ InitSponsorVars({})
  /\ InitEscrowVars({"k1"}, FALSE)
  /\ InitPaymasterVars
NextAuditSeq ==
  /\ AuditSeqNext
  /\ UNCHANGED <<escrowVars, sponsorVars, paymasterVars, quoteVars>>
SpecAuditSeq == InitAuditSeq /\ [][NextAuditSeq]_vars

(***************************************************************************)
(* CLAIMS: escrow                                                          *)
(***************************************************************************)

\* the rows of the transition table: <<from, event, to>>
TransitionTable ==
  { <<"Empty", "deposit", "Funded">>,
    <<"Funded", "release", "Released">>,
    <<"Funded", "refund", "Refunded">>,
    <<"Funded", "dispute", "Disputed">>,
    <<"Disputed", "resolve", "Released">>,
    <<"Disputed", "resolve", "Refunded">> }

PaidOut(e, to) ==
  IF e.token = ZeroAddress
  THEN /\ nativeBal' = Move(nativeBal, EscrowAddr, to, e.amount)
       /\ tokenBal' = tokenBal
  ELSE /\ tokenBal' = Move(tokenBal, EscrowAddr, to, e.amount)
       /\ nativeBal' = nativeBal

\* C4: release (refund) of a Funded record either pays exactly the recorded
\* amount of the recorded asset to the seller (buyer) and sets Released
\* (Refunded) in the same step, or fails and leaves the record Funded and
\* the balances untouched; the state never flips without the payment.
C4_PayoutAtomic ==
  [][\A k \in DOMAIN escrows :
        LET e == escrows[k] IN
        /\ (e.state = "Funded" /\ lastTx'.key = k
              /\ lastTx'.op \in {"release", "refund"}) =>
             IF lastTx'.err = "ok"
             THEN /\ escrows'[k] =
                       [e EXCEPT !.state = IF lastTx'.op = "release"
                                           THEN "Released" ELSE "Refunded"]
                  /\ PaidOut(e, IF lastTx'.op = "release"
                                THEN e.seller ELSE e.buyer)
             ELSE UNCHANGED <<escrows, nativeBal, tokenBal>>
        /\ (e.state = "Funded" /\ escrows'[k].state = "Released")
             => PaidOut(e, e.seller)
        /\ (e.state = "Funded" /\ escrows'[k].state = "Refunded")
             => PaidOut(e, e.buyer)]_vars

\* a release that paid the seller
C4_Witness ==
  /\ lastTx.op = "release" /\ lastTx.err = "ok"
  /\ escrows["k1"].state = "Released"
  /\ escrows["k1"].amount = MaxAmount

\* the caller guard of the transition table, for record e
CallerPermitted(op, sender, e) ==
  CASE op \in {"release", "refund"} -> sender = owner
    [] op = "dispute" -> sender = e.buyer \/ sender = e.seller
    [] op = "resolve" -> sender = arbitrator \/ sender = owner
    [] OTHER -> TRUE

\* C5: a release, refund, dispute or resolve call by a caller the transition
\* table does not permit fails and changes no record and no balance.
C5_OnlyPermittedCallers ==
  [][~CallerPermitted(lastTx'.op, lastTx'.sender, escrows[lastTx'.key]) =>
        /\ lastTx'.err # "ok"
        /\ UNCHANGED <<escrows, nativeBal, tokenBal>>]_vars

\* a release attempted on a Funded record by someone who is not the owner
C5_Witness ==
  /\ lastTx.op = "release" /\ lastTx.sender # owner
  /\ lastTx.err = "not owner"
  /\ escrows["k1"].state = "Funded"

(***************************************************************************)
(* CLAIMS: sponsorship issuance                                            *)
(***************************************************************************)

\* C1: for every registered policy, the number of sign requests that were
\* checked against it and returned an authorization since it was registered
\* never exceeds its maxOpsPerAuction, in any interleaving of the requests.
C1_QuotaUnderConcurrency ==
  \A bk \in DOMAIN policyStore :
     GetOr(issued, bk, 0) <= policyStore[bk].maxOpsPerAuction

\* C2: a response of the sign route carries a signed authorization only if
\* the policy check of that request passed.
C2_SignedOnlyIfPolicyPassed ==
  \A i \in DOMAIN req :
     (req[i].pc = "done" /\ req[i].auth # NoAuthorization)
        => req[i].policyCheck = "passed"

ReportedValidAsIssued ==
  /\ ~val.validationData.sigFailed
  /\ val.validationData.validUntil = inFlight.validUntil
  /\ val.validationData.validAfter = inFlight.validAfter

\* C7 as stated: an authorization issued for (sender, paymaster), presented
\* unaltered to that paymaster for an operation of that sender on the same
\* chain and entry point, is reported signature-valid with its validUntil
\* and validAfter.
C7_IssuedIsValid ==
  (val.done /\ val.asIssued) => ReportedValidAsIssued

\* C7 amended: the same, while the paymaster's registered sponsorSigner is
\* the issuing key's address and, at the token paymaster, the sender's
\* allowance covers maxCost * tokenPricePerGas / 1e18.
C7_IssuedIsValidWhenSignerAndAllowance ==
  ( /\ val.done /\ val.asIssued
    /\ sponsorSigner[val.self] = SponsorSignerAddr
    /\ val.self = ERC20Paymaster =>
          allowance[ToLower(val.sender)]
            >= (val.maxCost * tokenPricePerGas) \div E18 )
  => ReportedValidAsIssued

\* an authorization issued for 0xAB validated at the token paymaster for an
\* operation of 0xab with a positive worst-case token cost
C7_Witness ==
  /\ val.done /\ val.asIssued
  /\ inFlight.sender = "0xAB" /\ val.sender = "0xab"
  /\ val.self = ERC20Paymaster /\ val.maxCost = E18
  /\ ~val.validationData.sigFailed

\* C8: a validation reports signature-valid only for a signature by the
\* registered sponsor signer over exactly (operation sender, blob
\* validUntil, blob validAfter, this paymaster, this chain id, the entry
\* point); a backend-signed blob presented for another sender, to the other
\* paymaster, on another chain or with validUntil / validAfter altered is
\* reported signature-invalid.
C8_BoundToScope ==
  val.done =>
    /\ ~val.validationData.sigFailed =>
          /\ val.signature.signer = sponsorSigner[val.self]
          /\ val.signature.digest =
               toEthSignedMessageHash(
                 AuthHash(val.sender, val.validUntil, val.validAfter,
                          val.self, val.chainid, EntryPointV07))
    /\ ( /\ val.signature.signer = SponsorSignerAddr
         /\ \/ ToLower(val.sender) # ToLower(inFlight.sender)
            \/ val.self # inFlight.paymasterAddress
            \/ val.chainid # ChainId
            \/ val.validUntil # inFlight.validUntil
            \/ val.validAfter # inFlight.validAfter )
        => val.validationData.sigFailed

\* a blob issued for the native paymaster, presented unaltered to the token
\* paymaster (same registered signer, no token cost to cover), is refused
C8_Witness ==
  /\ val.done
  /\ inFlight.paymasterAddress = NativePaymaster
  /\ val.self = ERC20Paymaster /\ val.maxCost = 0
  /\ val.signature.signer = SponsorSignerAddr
  /\ sponsorSigner[ERC20Paymaster] = SponsorSignerAddr
  /\ ToLower(val.sender) = ToLower(inFlight.sender)
  /\ val.validUntil = inFlight.validUntil
  /\ val.validAfter = inFlight.validAfter
  /\ val.validationData.sigFailed

(***************************************************************************)
(* CLAIMS: quotes                                                          *)
(***************************************************************************)
\* C9: every presented quote that differs from the generated quote in at
\* least one field (scope id, fiat amount, fiat currency, settlement
\* amount, settlement asset, exchange rate, maximum slippage, expiry,
\* signature) is rejected by verifyQuote.
C9_AnyMutationRejected ==
  (quote.ok /\ verified.done /\ verified.quote # quote.value)
    => ~verified.valid

(***************************************************************************)
(* CLAIMS: audit commitment chain                                          *)
(***************************************************************************)
\* C10: for each scope, the sequence numbers of the recorded entries are
\* strictly increasing in order of recording, whichever of them were
\* assigned by the public log or synthesised locally.
C10_SequenceStrictlyIncreasing ==
  \A a \in Scopes :
    LET log == getAuditLog(a)
    IN \A m \in 1..Len(log), n \in 1..Len(log) :
         m < n => log[m].hederaSequenceNumber < log[n].hederaSequenceNumber

\* C11: with a log client configured, a publishCommitment call whose
\* outbound calls to the public log fail does not fail its caller: every
\* call that has settled returned an entry, and that entry is recorded in
\* the private audit log.
C11_UnreachableLogStillRecords ==
  \A i \in DOMAIN pub :
    (hederaKey /\ pub[i].pc \in {"done", "rejected"})
      => /\ pub[i].pc = "done"
         /\ \E n \in 1..Len(auditLog) : auditLog[n] = pub[i].entry

(***************************************************************************)
(* CLAIMS: sponsor policy state                                            *)
(***************************************************************************)
\* C12: in every reachable state, for every beneficiary with a registered
\* policy, the stored usage counter of (policy scope, beneficiary) is at
\* most that policy's maxOpsPerAuction, in any interleaving of policy
\* registrations and sign requests.
C12_CounterWithinQuota ==
  \A bk \in DOMAIN policyStore :
     GetOr(opsCounter, opsKey(policyStore[bk].auctionId, bk), 0)
       <= policyStore[bk].maxOpsPerAuction

(***************************************************************************)
(* CLAIMS: validity window on chain                                        *)
(***************************************************************************)
\* the validation just made is of the authorization in flight, unaltered,
\* by the paymaster it was issued for, while that paymaster's registered
\* signer is the issuing key and (token paymaster) the allowance covers the
\* worst-case token cost
ValidatedWithGoodSignature ==
  /\ val.done /\ val.asIssued
  /\ sponsorSigner[val.self] = SponsorSignerAddr
  /\ val.self = ERC20Paymaster =>
        allowance[ToLower(val.sender)]
          >= (val.maxCost * tokenPricePerGas) \div E18

\* C13 as stated: an authorization whose validUntil is in the past is
\* rejected by the validator (reported as failed) even though its signature
\* is otherwise valid.
C13_ExpiredRejected ==
  (ValidatedWithGoodSignature /\ val.validUntil < NowSeconds)
    => val.validationData.sigFailed

\* C13 amended: for an authorization whose validUntil is in the past and
\* whose signature is otherwise valid, the validator returns a result that
\* is not flagged signature-failed and carries the blob's validUntil and
\* validAfter unchanged, by which the caller of the validator can see that
\* the window has closed.
C13_ExpiredReportedWithWindow ==
  (ValidatedWithGoodSignature /\ val.validUntil < NowSeconds)
    => /\ ~val.validationData.sigFailed
       /\ val.validationData.validUntil = inFlight.validUntil
       /\ val.validationData.validAfter = inFlight.validAfter
       /\ val.validationData.validUntil < NowSeconds

\* an authorization validated by the native paymaster after its validUntil
C13_Witness ==
  /\ ValidatedWithGoodSignature
  /\ val.self = NativePaymaster
  /\ val.validUntil < NowSeconds
  /\ val.validationData.validUntil = val.validUntil

\* the validation just made happened within the window of the
\* authorization in flight
WithinWindow ==
  /\ inFlight.validAfter <= NowSeconds
  /\ NowSeconds <= inFlight.validUntil

\* C14 as stated: an issued authorization, presented unaltered within
\* [validAfter, validUntil] to its paymaster for its sender, is reported
\* signature-valid whatever operations were performed since it was issued,
\* administrative calls on the validator included.
C14_NeverRevoked ==
  (val.done /\ val.asIssued /\ WithinWindow)
    => ~val.validationData.sigFailed

\* C14 amended: the same, as long as the paymaster's registered signer is
\* still the issuing key and, at the token paymaster, the sender's allowance
\* covers the worst-case token cost; calls on the other paymaster, price or
\* allowance changes within that cover and later issuances do not revoke it.
C14_ValidUntilSignerRotated ==
  (ValidatedWithGoodSignature /\ WithinWindow)
    => /\ ~val.validationData.sigFailed
       /\ val.validationData.validUntil >= NowSeconds
       /\ val.validationData.validAfter <= NowSeconds

\* an authorization for the native paymaster is reported valid within its
\* window after the token paymaster's signer was rotated, the token price
\* raised and no allowance given
C14_Witness ==
  /\ ValidatedWithGoodSignature /\ WithinWindow
  /\ val.self = NativePaymaster /\ val.maxCost = E18
  /\ sponsorSigner[ERC20Paymaster] = AttackerAddr
  /\ tokenPricePerGas > 1
  /\ allowance[ToLower(val.sender)] = 0
  /\ ~val.validationData.sigFailed

(***************************************************************************)
(* CLAIMS: escrow guards and records                                       *)
(***************************************************************************)
\* the From-state of an operation's rows in the transition table
FromState(op) ==
  CASE op = "deposit" -> "Empty"
    [] op \in {"release", "refund", "dispute"} -> "Funded"
    [] op = "resolve" -> "Disputed"

\* C15: an escrow operation invoked on a record that is not in the
\* From-state of its table row (deposit outside Empty, release / refund /
\* dispute outside Funded, resolve outside Disputed) fails and leaves every
\* record and every balance unchanged.
C15_WrongStateFails ==
  [][( /\ blockTime' = blockTime
       /\ lastTx'.op \in {"deposit", "release", "refund", "dispute", "resolve"}
       /\ escrows[lastTx'.key].state # FromState(lastTx'.op) )
      => /\ lastTx'.err # "ok"
         /\ UNCHANGED <<escrows, nativeBal, tokenBal>>]_vars

\* the owner's second release of a record already Released has failed
C15_Witness ==
  /\ lastTx.op = "release" /\ lastTx.sender = owner
  /\ lastTx.err = "not funded"
  /\ escrows["k1"].state = "Released"

C17_ResolvePaysRecordedAmount ==
  [][\A s \in Callers, k \in DOMAIN escrows, ts \in BOOLEAN, acc \in BOOLEAN :
        LET e == escrows[k] IN
        (e.state = "Disputed" /\ resolveDispute(s, k, ts, acc)) =>
          /\ ((s = arbitrator \/ s = owner) /\ (acc \/ e.token # ZeroAddress))
                => lastTx'.err = "ok"
          /\ IF lastTx'.err = "ok"
             THEN /\ escrows'[k] =
                       [e EXCEPT !.state = IF ts THEN "Released" ELSE "Refunded"]
                  /\ PaidOut(e, IF ts THEN e.seller ELSE e.buyer)
             ELSE UNCHANGED <<escrows, nativeBal, tokenBal>>]_vars

\* u1 deposited MaxAmount natively for seller u2, a dispute was raised and
\* resolved to the buyer: u1 holds the full deposit again
C17_Witness ==
  /\ lastTx.op = "resolve" /\ lastTx.err = "ok"
  /\ escrows["k1"].state = "Refunded"
  /\ escrows["k1"].buyer = "u1" /\ escrows["k1"].seller = "u2"
  /\ escrows["k1"].token = ZeroAddress
  /\ escrows["k1"].amount = MaxAmount
  /\ nativeBal["u1"] = MaxAmount /\ nativeBal[EscrowAddr] = 0

(***************************************************************************)
(* CLAIMS: sign requests and the policy rules                              *)
(***************************************************************************)
\* the rules a request of sender for (auctionId, selector) violates in the
\* current state, by their position in the documented order
ViolatedRules(sender, auctionId, selector) ==
  LET bk == ToLower(sender) IN
  IF bk \notin DOMAIN policyStore THEN {1}
  ELSE LET p == policyStore[bk]
           count == GetOr(opsCounter, <<p.auctionId, bk>>, 0)
           window == GetOr(rateLimitTimestamps, bk, <<>>)
           recent == {n \in 1..Len(window) :
                        clock - window[n] < RATE_LIMIT_WINDOW_MS}
       IN    (IF NowSeconds > p.expiresAt THEN {2} ELSE {})
        \cup (IF p.auctionId # auctionId THEN {3} ELSE {})
        \cup (IF p.allowedSelectors # {} /\ selector \notin p.allowedSelectors
              THEN {4} ELSE {})
        \cup (IF count >= p.maxOpsPerAuction THEN {5} ELSE {})
        \cup (IF Cardinality(recent) >= HourlyCap THEN {6} ELSE {})

RuleError ==
  <<"SPONSOR_POLICY_NOT_FOUND", "SPONSOR_POLICY_EXPIRED",
    "SPONSOR_AUCTION_MISMATCH", "SPONSOR_SELECTOR_DISALLOWED",
    "SPONSOR_RATE_LIMIT", "SPONSOR_HOURLY_LIMIT">>

\* C18: the policy check of a sign request fails with the error of the
\* first rule the request violates, in the order POLICY_NOT_FOUND,
\* POLICY_EXPIRED, AUCTION_MISMATCH, SELECTOR_DISALLOWED, RATE_LIMIT,
\* HOURLY_LIMIT, and succeeds when it violates none.
C18_FirstViolatedRule ==
  [][\A i \in DOMAIN req, s \in Addresses, a \in Scopes, sel \in Selectors :
        SignSequential(i, s, a, sel, NativePaymaster) =>
          LET v == ViolatedRules(s, a, sel)
          IN buildResult'.err =
               IF v = {} THEN "ok"
               ELSE RuleError[CHOOSE n \in v : \A m \in v : n <= m]]_vars

\* a request that violated the expiry, scope, selector and quota rules at
\* once was refused with POLICY_EXPIRED
C18_Witness ==
  /\ "0xab" \in DOMAIN policyStore
  /\ policyStore["0xab"].expiresAt < NowSeconds
  /\ policyStore["0xab"].auctionId = "A1"
  /\ policyStore["0xab"].allowedSelectors = {"0xaaaaaaaa"}
  /\ policyStore["0xab"].maxOpsPerAuction = 0
  /\ req[1].pc = "done" /\ req[1].sender = "0xab"
  /\ req[1].auctionId = "A2" /\ req[1].selector = "0xbbbbbbbb"
  /\ buildResult.err = "SPONSOR_POLICY_EXPIRED"
  /\ buildResult.sender = "0xab" /\ buildResult.auctionId = "A2"

\* the stored policies, usage counters and rate windows
Stores == <<policyStore, opsCounter, rateLimitTimestamps>>

\* request i completes buildSponsorshipData in this step
BuildReturns(i) ==
  /\ req[i].pc = "b_sign" /\ req'[i].pc = "r_respond"
  /\ req'[i].policyCheck = "passed"

\* counters and windows change only when a buildSponsorshipData call
\* completes or a policy is registered (which moves no request)
WrittenOnlyOnSuccess ==
  (opsCounter' # opsCounter \/ rateLimitTimestamps' # rateLimitTimestamps)
    => \/ \E i \in DOMAIN req : BuildReturns(i)
       \/ /\ rateLimitTimestamps' = rateLimitTimestamps
          /\ \A i \in DOMAIN req : req'[i].pc = req[i].pc

\* every step of a request other than the completion of its
\* buildSponsorshipData call (a policy error, a failed chain-id lookup, a
\* failed signing call, the response) leaves the stores unchanged
FailureWritesNothing ==
  \A i \in DOMAIN req :
     (req'[i].pc # req[i].pc /\ ~BuildReturns(i)) => UNCHANGED Stores

\* C19 as stated: a sign request that fails leaves policies, counters and
\* windows unchanged, and counters and windows are written only by a
\* request that returns an authorization.
C19_WrittenOnlyByAuthorizedRequest ==
  [][/\ WrittenOnlyOnSuccess
     /\ FailureWritesNothing
     /\ \A i \in DOMAIN req :
          ( /\ req[i].pc = "r_respond" /\ req[i].policyCheck = "passed"
            /\ req'[i].pc = "done" )
          => (req'[i].status = 200 /\ req'[i].auth # NoAuthorization)]_vars

\* C19 amended: a buildSponsorshipData call that fails leaves policies,
\* counters and windows unchanged, and counters and windows are written
\* only by a buildSponsorshipData call that completes; the request around
\* it may still fail afterwards.
C19_WrittenOnlyByCompletedCheck ==
  [][WrittenOnlyOnSuccess /\ FailureWritesNothing]_vars

\* a request refused by the quota rule has left the counter at the quota
C19_Witness ==
  /\ \E i \in DOMAIN req :
        /\ req[i].pc = "r_respond" /\ req[i].policyCheck = "no_policy"
        /\ req[i].sender = "0xab"
  /\ buildResult.err = "SPONSOR_RATE_LIMIT"
  /\ policyStore["0xab"].maxOpsPerAuction = 1
  /\ opsCounter[<<"A1", "0xab">>] = 1
  /\ Len(rateLimitTimestamps["0xab"]) = 1

\* request i passes the abuse controls of buildSponsorshipData in this step
PassesControls(i) ==
  \/ req[i].pc = "r_sign" /\ req'[i].pc = "b_chain"
  \/ /\ \E s \in Addresses, a \in Scopes, sel \in Selectors :
          SignSequential(i, s, a, sel, NativePaymaster)
     /\ buildResult'.err = "ok"

\* C20: a sign request made when 20 issuances for its beneficiary lie
\* within the past hour does not pass (it fails with HOURLY_LIMIT).  The
\* issuances counted are those since the beneficiary's latest registration,
\* in behaviours where no time passes, so all of them lie within the hour.
C20_CapOnIssuancesWithinHour ==
  [][\A i \in DOMAIN req :
        (PassesControls(i) /\ clock = StartMs)
          => GetOr(issued, ToLower(req'[i].sender), 0) < HourlyCap]_vars

\* the policy object the policy route builds from its inputs
PolicyOf(a, b, sel, m, e) ==
  [auctionId |-> a, beneficiary |-> b, allowedSelectors |-> sel,
   maxOpsPerAuction |-> m, expiresAt |-> NowSeconds + e]

\* C21: after registerPolicy(p) the policy stored for p's beneficiary is p
\* and the usage counter of (p's scope, p's beneficiary) is 0, whatever
\* policy and counter were stored before the call
C21_RegisterStoresAndResets ==
  [][\A a \in {"A1"}, b \in {"0xAB"}, sel \in {{}, {"0xaaaaaaaa"}},
        m \in 0..MaxOps, e \in {0 - 1, 3600} :
        PostPolicy(a, b, sel, m, e)
          => /\ policyStore'[ToLower(b)] = PolicyOf(a, b, sel, m, e)
             /\ opsCounter'[opsKey(a, b)] = 0]_vars

\* a registration has replaced a policy under which an authorization had
\* been issued: the window holds the issuance, the counter is back at 0
C21_Witness ==
  /\ "0xab" \in DOMAIN policyStore
  /\ Len(GetOr(rateLimitTimestamps, "0xab", <<>>)) > 0
  /\ DOMAIN opsCounter = {opsKey("A1", "0xab")}
  /\ opsCounter[opsKey("A1", "0xab")] = 0

\* the address the validator recovers in the validation recorded in v
RecoveredSigner(v) ==
  recover(toEthSignedMessageHash(
            AuthHash(v.sender, v.validUntil, v.validAfter, v.self, v.chainid,
                     EntryPointV07)),
          v.signature)

\* C22: when the signer recovered from the blob is not the registered
\* sponsor signer, validation at either paymaster returns a result flagged
\* signature-invalid that carries the blob's validUntil and validAfter, and
\* the call changes no contract state
C22_WrongSignerReportedNotAborted ==
  [][(/\ val'.done /\ val' # val
      /\ RecoveredSigner(val') # sponsorSigner[val'.self])
        => /\ val'.validationData =
                [sigFailed |-> TRUE, validUntil |-> val'.validUntil,
                 validAfter |-> val'.validAfter]
           /\ UNCHANGED <<sponsorSigner, tokenPricePerGas, allowance>>]_vars

\* the token paymaster has validated a blob signed by a key that is not its
\* registered signer, with an allowance that covers the cost
C22_Witness ==
  /\ val.done /\ val.self = ERC20Paymaster
  /\ val.signature.signer = AttackerAddr
  /\ RecoveredSigner(val) = AttackerAddr
  /\ sponsorSigner[ERC20Paymaster] = SponsorSignerAddr
  /\ allowance[ToLower(val.sender)] >= (val.maxCost * tokenPricePerGas) \div E18
  /\ val.validUntil > 0
  /\ val.validationData.sigFailed

\* C23: the quote generateQuote returned for a valid input (fiatAmount > 0,
\* supported currency, any scope and validity) passes verifyQuote when it is
\* presented unchanged, whatever the time of the verification
C23_QuoteRoundTrip ==
  (quote.ok /\ verified.done /\ verified.quote = quote.value)
    => verified.valid

\* a generated quote presented unchanged after its validUntil has passed
C23_Witness ==
  /\ quote.ok /\ verified.done /\ verified.quote = quote.value
  /\ quote.value.validUntil < NowSeconds
  /\ verified.valid

\* C24: generateQuote called with fiatAmount <= 0 fails with the
\* invalid-amount error and returns no quote and no signature
C24_NonPositiveAmountRejected ==
  [][\A a \in Scopes, f \in {0 - 1, 0}, c \in FiatCurrencies,
        t \in SettlementTokens, v \in {DefaultQuoteValiditySeconds, 60} :
        GenerateQuote(a, f, c, t, v)
          => quote' = [ok |-> FALSE, error |-> "fiatAmount must be > 0"]]_vars

\* a call with a non-positive amount has failed
C24_Witness ==
  /\ ~quote.ok /\ quote.error = "fiatAmount must be > 0"
  /\ DOMAIN quote = {"ok", "error"}

\* C25: verifyCommitment returns true for every entry publishCommitment
\* recorded, on the published path and on the fallback path, and returns
\* false once the entry's stored nonce or stored timestamp is changed
C25_CommitmentRoundTrip ==
  checked.done =>
    /\ checked.field = "none" => checked.valid
    /\ checked.field \in {"nonce", "timestamp"} => ~checked.valid

\* an entry recorded on the fallback path (client configured, nothing
\* sequenced by its topic) was checked after its nonce was changed
C25_Witness ==
  /\ checked.done /\ checked.field = "nonce"
  /\ checked.entry.nonce # auditLog[checked.n].nonce
  /\ hederaKey /\ hcs[auditLog[checked.n].hederaTopicId] = <<>>
  /\ ~checked.valid

\* C26: changing any one stored field of a recorded entry (scope id, stage,
\* either upstream reference, timestamp, nonce, commitment hash, sequence
\* number, topic id, consensus timestamp) makes verifyCommitment return
\* false
C26_AnyTamperingDetected ==
  (checked.done /\ checked.field # "none") => ~checked.valid

\* the publishCommitment call of slot i completes in this step
Completes(i) == pub[i].pc \notin {"idle", "done", "rejected"} /\ pub'[i].pc = "done"

\* C27: the private audit log is append-only: a step in which a
\* publishCommitment call completes appends exactly one entry, the one it
\* returns, for the call's own scope; every other step leaves the log as it
\* is; so getAuditLog(scope) keeps its entries and their order and grows only
\* by that scope's new entry
C27_AppendOnly ==
  [][(\A i \in DOMAIN pub :
        Completes(i)
          => /\ auditLog' = Append(auditLog, pub'[i].entry)
             /\ pub'[i].entry.auctionId = pub[i].commitment.auctionId
             /\ \A a \in Scopes :
                  getAuditLog(a)' =
                    IF a = pub[i].commitment.auctionId
                    THEN Append(getAuditLog(a), pub'[i].entry)
                    ELSE getAuditLog(a))
     /\ ((\A i \in DOMAIN pub : ~Completes(i)) => auditLog' = auditLog)]_vars

\* two calls for different scopes have completed, each with its entry
C27_Witness ==
  /\ Len(auditLog) = 2
  /\ auditLog[1].auctionId # auditLog[2].auctionId
  /\ \A i \in DOMAIN pub : pub[i].pc = "done"
  /\ Len(getAuditLog(auditLog[2].auctionId)) = 1

\* the messages the topics of the public log have sequenced
PublishedMessages ==
  UNION {{hcs[t][k] : k \in 1..Len(hcs[t])} : t \in DOMAIN hcs}

\* C28: every message submitted to the public log consists of the
\* commitment hash, the stage label and the timestamp of a recorded entry
\* and of nothing else, so neither upstream reference nor the nonce is a
\* field of it, while the private entry records both references and the
\* nonce
C28_OnlyHashStageTimestampPublished ==
  /\ \A m \in PublishedMessages :
       /\ DOMAIN m = {"commitmentHash", "stage", "timestamp"}
       /\ \E n \in 1..Len(auditLog) :
            /\ m.commitmentHash = auditLog[n].commitmentHash
            /\ m.stage = auditLog[n].stage
            /\ m.timestamp = auditLog[n].timestamp
  /\ \A n \in 1..Len(auditLog) :
       {"cantonTxId", "adiTxHash", "nonce"} \subseteq DOMAIN auditLog[n]

\* a commitment over two upstream references was published and recorded
C28_Witness ==
  /\ PublishedMessages # {}
  /\ \E n \in 1..Len(auditLog) :
       /\ auditLog[n].cantonTxId = "ref-a" /\ auditLog[n].adiTxHash = "ref-b"
       /\ auditLog[n].nonce \in Nonces
       /\ TopicMessage(auditLog[n]) \in PublishedMessages

\* C29: each scope has a single topic: at most one topic is created per
\* scope and all audit entries of a scope carry one topic id, in any
\* interleaving of calls, concurrent first calls for an uncached scope
\* included
C29_SingleTopicPerScope ==
  /\ Cardinality(DOMAIN hcs) <= Cardinality(DOMAIN topicCache)
  /\ \A m \in 1..Len(auditLog), n \in 1..Len(auditLog) :
       auditLog[m].auctionId = auditLog[n].auctionId
         => auditLog[m].hederaTopicId = auditLog[n].hederaTopicId

\* the sum of the actual fee costs of sender's calls in log
RECURSIVE FeeSum(_, _)
FeeSum(log, sender) ==
  IF log = <<>> THEN 0
  ELSE (IF Head(log).sender = sender THEN Head(log).actualGasCost ELSE 0)
       + FeeSum(Tail(log), sender)

\* the number of sender's calls in log
OpsOf(log, sender) == Len(SelectSeq(log, LAMBDA o : o.sender = sender))

\* C30: after any sequence of post-execution calls of the native variant
\* each sender's cumulative-fee counter equals the sum of the actual fee
\* costs of its operations and its operation counter equals their number
\* (so a call for one sender leaves the others' counters unchanged), and
\* the hook can be run for every sender and cost: it never fails
C30_PostOpAccounting ==
  /\ \A a \in DOMAIN sponsoredGas :
       /\ sponsoredGas[a] = FeeSum(postOps, a)
       /\ sponsoredOpsCount[a] = OpsOf(postOps, a)
  /\ Len(postOps) < MaxPostOps
       => \A a \in DOMAIN sponsoredGas, c \in 0..MaxGasCost :
            ENABLED _postOp(a, c)

\* operations of two senders have been accounted for
C30_Witness ==
  /\ sponsoredOpsCount["0xab"] = 2 /\ sponsoredGas["0xab"] = MaxGasCost + 1
  /\ sponsoredOpsCount["0xcd"] = 1 /\ sponsoredGas["0xcd"] = 0

(***************************************************************************)
(* CLAIMS: policies per scope, escrow gating, token accounting, checkout   *)
(***************************************************************************)
\* C31: policies are held one per (beneficiary, scope) pair: no step
\* replaces or removes the policy a beneficiary holds for a scope s1, in
\* particular not the registration of a policy for the same beneficiary
\* under another scope s2, so that sign requests for (b, s1) are still
\* judged against the s1 policy
C31_PolicyPerBeneficiaryAndScope ==
  [][\A b \in DOMAIN policyStore :
        /\ b \in DOMAIN policyStore'
        /\ policyStore'[b].auctionId = policyStore[b].auctionId]_vars

\* C32: the backend never submits an escrow transition without first reading
\* the record's current state in the same request, and sends no transition
\* call when that state does not permit the transition
C32_ReadBeforeTransition ==
  (route.op # "none" /\ route.submitted)
    => (route.readState /\ route.permitted)

\* C33: a record is Funded only if a quote for its scope, signed by the
\* registered quote signer, covers the deposited amount
C33_DepositGatedByQuote ==
  \A k \in DOMAIN escrows :
    escrows[k].state = "Funded"
      => /\ quote.ok
         /\ quote.value.auctionId = k
         /\ verifyQuote(quote.value)
         /\ quote.value.tokenAmount >= escrows[k].amount

\* C34: token variant: whenever a post-execution has pulled tokens for an
\* operation whose actual fee cost was within its max cost, the amount pulled
\* is at most the worst-case token cost that the operation's validation
\* compared against the sender's approval, whatever price updates came in
\* between
C34_PulledWithinValidatedCost ==
  (charged.done /\ charged.actualGasCost <= charged.maxCost)
    => charged.pulled <= charged.maxTokenCost

\* the sum of the recorded amounts of the records among keys that hold asset
\* and are Funded or Disputed
RECURSIVE Owed(_, _)
Owed(asset, keys) ==
  IF keys = {} THEN 0
  ELSE LET k == CHOOSE x \in keys : TRUE
           e == escrows[k]
       IN (IF e.token = asset /\ e.state \in {"Funded", "Disputed"}
           THEN e.amount ELSE 0) + Owed(asset, keys \ {k})

C35_Paid == {"Released", "Refunded"}

C35_Solvent ==
  /\ nativeBal[EscrowAddr] >= Owed(ZeroAddress, DOMAIN escrows)
  /\ tokenBal[EscrowAddr] >= Owed(TokenAddr, DOMAIN escrows)

\* a step pays a record out exactly when it turns it Released or Refunded,
\* moving the recorded amount of its asset from the contract to the seller
\* (Released) or the buyer (Refunded); a paid record never changes again, and
\* the contract's holdings drop in no other step
C35_PaidExactlyOnce ==
  [][/\ \A k \in DOMAIN escrows :
          /\ escrows[k].state \in C35_Paid => escrows'[k] = escrows[k]
          /\ (escrows[k].state \notin C35_Paid /\ escrows'[k].state \in C35_Paid)
               => (LET e == escrows[k]
                       to == IF escrows'[k].state = "Released"
                             THEN e.seller ELSE e.buyer
                   IN /\ escrows'[k] = [e EXCEPT !.state = escrows'[k].state]
                      /\ e.state \in {"Funded", "Disputed"}
                      /\ IF e.token = ZeroAddress
                         THEN /\ nativeBal' = Move(nativeBal, EscrowAddr, to, e.amount)
                              /\ tokenBal' = tokenBal
                         ELSE /\ tokenBal' = Move(tokenBal, EscrowAddr, to, e.amount)
                              /\ nativeBal' = nativeBal)
     /\ (\/ nativeBal'[EscrowAddr] < nativeBal[EscrowAddr]
         \/ tokenBal'[EscrowAddr] < tokenBal[EscrowAddr])
          => \E k \in DOMAIN escrows :
                escrows[k].state \notin C35_Paid /\ escrows'[k].state \in C35_Paid]_vars

\* C35: escrow solvency: in every reachable state and for each asset, the
\* contract holds at least the sum of the recorded amounts of the Funded and
\* Disputed records of that asset, and a record that is Released or Refunded
\* has had exactly its recorded amount paid out, once
C35_EscrowSolvency == []C35_Solvent /\ C35_PaidExactlyOnce

\* one record paid out while another of the same asset is still held, the
\* contract holding exactly what the second records
C35_Witness ==
  \E k \in DOMAIN escrows, h \in DOMAIN escrows :
    /\ escrows[k].state \in C35_Paid
    /\ escrows[h].state \in {"Funded", "Disputed"}
    /\ escrows[k].token = TokenAddr /\ escrows[h].token = TokenAddr
    /\ tokenBal[EscrowAddr] = escrows[h].amount

\* C36: when the recipient of a native payout calls release, refund, dispute
\* or resolveDispute on the same key during the transfer, the re-entrant call
\* fails, and the transaction pays out the key's recorded amount at most once
C36_ReentrantCallFails ==
  reentry.done
    => /\ reentry.innerErr # "ok"
       /\ reentry.paidOut <= reentry.amount
       /\ reentry.paidOut = (IF reentry.reverted THEN 0 ELSE reentry.amount)

\* the owner, being the seller, re-enters release from its receive hook while
\* the contract still holds another key's funds, and is turned away
C36_Witness ==
  /\ reentry.done /\ ~reentry.reverted
  /\ reentry.op = "release" /\ reentry.inner = "release"
  /\ reentry.caller = OwnerAddr
  /\ reentry.innerErr = "not funded"
  /\ nativeBal[EscrowAddr] >= reentry.amount

\* whether the paymaster at self reports the authorization in flight
\* signature-valid for an operation of sender s with max cost mc
C37_ReportedValid(self, s, mc) ==
  /\ inFlight.issued
  /\ ~ValidationData(self, ChainId,
        [sender |-> s, paymasterAndData |-> inFlight.paymasterAndData],
        mc).sigFailed

\* a step that validates or post-processes an operation
C37_ValidatesOrPostProcesses ==
  \/ val'.done /\ val' # val
  \/ postOps' # postOps
  \/ context.active /\ ~context'.active

\* C37 as claimed: a validation or post-execution never changes the outcome
\* of a later validation: a blob either paymaster reports signature-valid for
\* a sender before the step is reported signature-valid after it
C37_ValidationOutcomeUnchanged ==
  [][C37_ValidatesOrPostProcesses
       => \A self \in Paymasters, s \in {"0xab", "0xcd"}, mc \in {0, E18} :
            C37_ReportedValid(self, s, mc) => C37_ReportedValid(self, s, mc)']_vars

\* C37 as the code has it: the native paymaster reports the blob valid again
\* after any validation or post-execution, however many operations it has
\* sponsored; the token paymaster does so whenever the sender's remaining
\* approval still covers the later operation's worst-case token cost, the
\* approval being what its post-execution consumes
C37_UnchangedUpToApproval ==
  [][C37_ValidatesOrPostProcesses
       => \A self \in Paymasters, s \in {"0xab", "0xcd"}, mc \in {0, E18} :
            (/\ C37_ReportedValid(self, s, mc)
             /\ self = ERC20Paymaster
                  => allowance'[s] >= (mc * tokenPricePerGas') \div E18)
              => C37_ReportedValid(self, s, mc)']_vars

\* the token paymaster reports the blob valid for a later operation after a
\* post-execution pulled tokens, the native one having sponsored the sender
C37_Witness ==
  /\ charged.done /\ charged.pulled > 0
  /\ sponsoredOpsCount["0xab"] > 0
  /\ val.done /\ val.self = ERC20Paymaster
  /\ ~val.validationData.sigFailed
  /\ val.maxCost = E18

\* C38: a session's status becomes quote_ready only from pending, paying
\* only from quote_ready, and completed only from paying, in every sequence
\* of calls of the checkout service
C38_DocumentedLifecycle ==
  [][\A i \in DOMAIN sessions :
       sessions'[i].status # sessions[i].status
         => /\ sessions'[i].status = "quote_ready"
                 => sessions[i].status = "pending"
            /\ sessions'[i].status = "paying"
                 => sessions[i].status = "quote_ready"
            /\ sessions'[i].status = "completed"
                 => sessions[i].status = "paying"]_vars

====
